---- MODULE Spec2Model ----
(***************************************************************************)
(* The wasp controller.                                                    *)
(*  - Spec, LiveSpec: one connection handler (WaspServer.handle) that      *)
(*    drains the pending-task directory of an agent (WaspMalware), and the *)
(*    operator tools (WaspUI) that submit tasks into that directory while  *)
(*    the handler runs; frames are the unit.                               *)
(*  - ServerSpec: two connections handled at once by ThreadingTCPServer,   *)
(*    each with its own handler instance and ciphers.                      *)
(*  - HandshakeSpec: handshake_from_wasp and the length field of the first *)
(*    envelope, byte by byte.                                              *)
(*  - CipherSpec: WaspSimpleCipher.cipher applied twice.                   *)
(*  - FrameSpec: receive_result and receive_chunks, byte by byte, on the   *)
(*    stream an agent sends in answer to its tasks.                        *)
(*  - ChunkSpec: send_chunks, and receive_chunks on what it sent.          *)
(*  - CommandSpec: get_dict and from_dict of the command classes.          *)
(*  - WaspsSpec: the agent directories that WaspMalware makes and loads,   *)
(*    and the operator tool's selection among them.                        *)
(*  - RaceSpec: the session of Spec with submit_task in two steps, the     *)
(*    open of the entry and the write into it.                             *)
(***************************************************************************)
EXTENDS Integers, Sequences, FiniteSets, TLC

\* ------------------------------------------------------------------ bounds
\* Commands the operator tools create and submit in a run.
MaxTasks == 2
\* The clock (datetime.utcnow, formatted to the second) runs over 0..MaxTime.
MaxTime == 1
\* Zero-length frames the agent sends in answer to tasks on one connection.
MaxEmpty == 1
\* Bytes the peer sends after its handshake, in the byte-level part.
MaxBody == 4
\* The length of the byte strings WaspSimpleCipher.cipher is applied to.
MaxLen == 3

\* ------------------------------------------------------------- processes
\* The controller process that runs WaspServer.
ServerProc == 0
\* The operator tool processes (instances of the WaspUI tool).
Operators == {1, 2}

\* WaspMethod: EMPTY_CIPHER = 0, SIMPLE_CIPHER = 1.
EMPTY_CIPHER == 0
SIMPLE_CIPHER == 1

\* Verbs the operator tool submits (WaspCommandExecute.name).
Verbs == {"command"}

\* WASP_COMMAND_MAP: the verbs the classes of wasp_commands register.
WASP_COMMAND_MAP == {"handshake", "download", "filelist", "command", "proxy"}

\* A verb no class registers: an entry of the tasking directory written by a
\* tool that knows a command this controller does not.
Unregistered == {"upload"}

VARIABLES
    now,        \* the clock, in seconds
    known,      \* the agent's directories and wasp.json exist on disk
    tasking,    \* tasking_directory: file path |-> file content
    response,   \* response_directory: file path |-> the task answered
    submitted,  \* history: the submit_task calls, in order
    pc,         \* the handler's position in handle()
    commands,   \* handle(): the list get_tasks returned
    idx,        \* handle(): position of the for loop in commands
    wire,       \* history: frames sent and received on this connection
    marked,     \* history: the tasks mark_complete was called for, in order
    read,       \* history: the tasks get_tasks returned to the drain loop
    \* the server with several connections at once (ServerSpec)
    conn,       \* handler instance |-> its attributes and position
    store,      \* agent identifier |-> its tasking and response directory
    \* one connection's inbound byte stream (HandshakeSpec, FrameSpec,
    \* ChunkSpec)
    peer,       \* the bytes the peer sends before it closes
    pos,        \* how many of them the handler has read
    hs_pc,      \* the handler's position in handshake_from_wasp,
                \* receive_result and receive_chunks
    cipher_from_wasp,   \* self.cipher_from_wasp
    frames,     \* history: the envelopes and chunks read, in order
    \* a value put through a function and through its inverse: cipher and
    \* cipher (CipherSpec), send_chunks and receive_chunks (ChunkSpec),
    \* get_dict and from_dict (CommandSpec)
    seed,       \* the offset both cipher objects are created with
    data,       \* the value: a byte string, a command
    once,       \* the first function applied to data
    twice,      \* the second function applied to once
    cipher_pc,  \* how many of the two have been applied
    \* the agents on disk (WaspsSpec)
    wasps,      \* WASPS_PATH: directory name |-> what the directory holds
    last,       \* history: the last call on the agents, and what it returned
    ui          \* the operator tool: WaspUI.selected_wasp, and whether its
                \* prompt loop is running

\* The variables of the parts of the model.
session_vars == <<now, known, tasking, response, submitted, pc,
                  commands, idx, wire, marked, read>>
server_vars == <<conn, store>>
handshake_vars == <<peer, pos, hs_pc, cipher_from_wasp, frames>>
cipher_vars == <<seed, data, once, twice, cipher_pc>>
wasps_vars == <<wasps, last, ui>>

vars == <<session_vars, server_vars, handshake_vars, cipher_vars, wasps_vars>>

\* What the steps of one part leave alone.
beside_session == <<server_vars, handshake_vars, cipher_vars, wasps_vars>>
beside_server == <<session_vars, handshake_vars, cipher_vars, wasps_vars>>
beside_handshake == <<session_vars, server_vars, cipher_vars, wasps_vars>>
beside_cipher == <<session_vars, server_vars, handshake_vars, wasps_vars>>
beside_wasps == <<session_vars, server_vars, handshake_vars, cipher_vars>>

Range(f) == {f[x] : x \in DOMAIN f}

\* ------------------------------------------------------------ WaspCommand
\* command_id is a class attribute, evaluated once when the class is defined:
\* every instance created in a process carries that process's value.  The
\* uuid of process p is modelled by p; the operators submit in any order, so
\* both orders of two uuids occur.
ClassCommandId(proc) == proc

\* A command instance is [proc, uri, task]: the process it was created in,
\* its verb, and its fields (the n-th command the operators created carries
\* the fields n).
command_id(command) == ClassCommandId(command.proc)

\* WaspCommand.pack: the verb and the headers; command_id is not packed.
pack(command) == [uri |-> command.uri, headers |-> command.task]

\* WaspCommand.unpack, run in process proc: a new instance of the verb's
\* class built from the headers.
unpack(proc, packed) == [proc |-> proc, uri |-> packed.uri, task |-> packed.headers]

\* ------------------------------------------------------------ WaspMalware
\* The storage name of a task: command-<time to the second>-<command_id>.json
TaskPath(time, command) == <<time, command_id(command)>>

\* sorted(task_paths): the names compare by time string, then by identifier.
PathLess(a, b) == a[1] < b[1] \/ (a[1] = b[1] /\ a[2] < b[2])

MinPath(S) == CHOOSE p \in S : \A q \in S : q = p \/ PathLess(p, q)

RECURSIVE SortedPaths(_)
SortedPaths(S) ==
    IF S = {} THEN <<>> ELSE <<MinPath(S)>> \o SortedPaths(S \ {MinPath(S)})

\* write_bytes: creates the file, or replaces its content when it exists.
write_bytes(dir, path, content) ==
    [p \in DOMAIN dir \cup {path} |-> IF p = path THEN content ELSE dir[p]]

unlink(dir, path) == [p \in DOMAIN dir \ {path} |-> dir[p]]

\* WaspMalware.submit_task at time `time`.
submit_task(dir, time, command) ==
    write_bytes(dir, TaskPath(time, command), pack(command))

\* WaspCommand.unpack raises WaspException("Unimplmented command") when
\* class_for_name finds no class for the verb.
unpack_raises(packed) == packed.uri \notin WASP_COMMAND_MAP

\* A get_tasks that passes over the files it cannot unpack.
get_tasks_skips(dir) == FALSE

\* get_tasks unpacks every file: it raises when one of them does.
get_tasks_raises(dir) == \E p \in DOMAIN dir : unpack_raises(dir[p])

\* remove_task unpacks the files in sorted order up to the first whose
\* command_id matches: it raises when one of these does.
remove_task_raises(dir, proc, command) ==
    LET paths == SortedPaths(DOMAIN dir)
    IN  \E i \in 1..Len(paths) :
           /\ unpack_raises(dir[paths[i]])
           /\ \A j \in 1..(i - 1) :
                 command_id(unpack(proc, dir[paths[j]])) # command_id(command)

\* WaspMalware.get_tasks, run in process proc.
get_tasks(dir, proc) ==
    LET paths == SortedPaths(DOMAIN dir)
    IN  [i \in 1..Len(paths) |-> unpack(proc, dir[paths[i]])]

\* has_tasks with the bound off by one: a single pending task counts as none.
has_tasks_more_than_one(dir, proc) == Len(get_tasks(dir, proc)) > 1

\* WaspMalware.has_tasks.
has_tasks(dir, proc) == Len(get_tasks(dir, proc)) > 0

\* WaspMalware.remove_task, run in process proc: unlinks the first file, in
\* sorted order, whose unpacked command has the command_id of `command`.
remove_task(dir, proc, command) ==
    LET paths == SortedPaths(DOMAIN dir)
        hits  == {i \in 1..Len(paths) :
                    command_id(unpack(proc, dir[paths[i]])) = command_id(command)}
    IN  IF hits = {} THEN dir
        ELSE unlink(dir, paths[CHOOSE i \in hits : \A j \in hits : i <= j])

\* The storage name of a response: response-<time>-<verb>-<command_id>.json
ResponsePath(time, command) == <<time, command.uri, command_id(command)>>

\* WaspMalware.submit_response for a response linked to `command`.
submit_response(dir, time, command) ==
    write_bytes(dir, ResponsePath(time, command), command.task)

\* ---------------------------------------------------------------- ciphers
\* cipher_bytes, the keystream table of WaspSimpleCipher.
cipher_bytes == <<
    247, 224, 201, 178, 155, 132, 109,  86,  63,  40,  17, 249, 226, 203, 180,
    157, 134, 111,  88,  65,  42,  19, 251, 228, 205, 182, 159, 136, 113,  90,
     67,  44,  21, 253, 230, 207, 184, 161, 138, 115,  92,  69,  46,  23,   0,
    232, 209, 186, 163, 140, 117,  94,  71,  48,  25,   2, 234, 211, 188, 165,
    142, 119,  96,  73,  50,  27,   4, 236, 213, 190, 167, 144, 121,  98,  75,
     52,  29,   6, 238, 215, 192, 169, 146, 123, 100,  77,  54,  31,   8, 240,
    217, 194, 171, 148, 125, 102,  79,  56,  33,  10, 242, 219, 196, 173, 150,
    127, 104,  81,  58,  35,  12, 244, 221, 198, 175, 152, 129, 106,  83,  60,
     37,  14, 246, 223, 200, 177, 154, 131, 108,  85,  62,  39,  16, 248, 225,
    202, 179, 156, 133, 110,  87,  64,  41,  18, 250, 227, 204, 181, 158, 135,
    112,  89,  66,  43,  20, 252, 229, 206, 183, 160, 137, 114,  91,  68,  45,
     22, 254, 231, 208, 185, 162, 139, 116,  93,  70,  47,  24,   1, 233, 210,
    187, 164, 141, 118,  95,  72,  49,  26,   3, 235, 212, 189, 166, 143, 120,
     97,  74,  51,  28,   5, 237, 214, 191, 168, 145, 122,  99,  76,  53,  30,
    239, 216, 193, 170, 147, 124, 101,  78,  55,  32,   9, 241, 218, 195, 172,
    149, 126, 103,  80,  57,  34,  11, 243, 220, 197, 174, 151, 128, 105,  82,
     59,  36,  13, 245, 222, 199, 176, 153, 130, 107,  84,  61,  38,  15, 247 >>

\* b ^ k on two bytes.
RECURSIVE Xor(_, _)
Xor(a, b) ==
    IF a = 0 THEN b
    ELSE IF b = 0 THEN a
    ELSE (((a % 2) + (b % 2)) % 2) + (2 * Xor(a \div 2, b \div 2))

\* WaspCipher(): the no-op cipher.
WaspCipher == [method |-> EMPTY_CIPHER]

\* WaspSimpleCipher(offset): __init__ stores the offset as it is given.
WaspSimpleCipher(offset) == [method |-> SIMPLE_CIPHER, offset |-> offset]

\* The for loop of WaspSimpleCipher.cipher.  cipher_bytes[self.offset]
\* raises IndexError when the offset is not an index of the table (Python
\* counts from 0, the tuple above from 1).
RECURSIVE cipher_loop(_, _, _)
cipher_loop(offset, rest, encrypted_bytes) ==
    IF rest = <<>>
    THEN [cipher |-> WaspSimpleCipher(offset), bytes |-> encrypted_bytes,
          raised |-> FALSE]
    ELSE IF offset + 1 \notin DOMAIN cipher_bytes
    THEN [cipher |-> WaspSimpleCipher(offset), bytes |-> encrypted_bytes,
          raised |-> TRUE]
    ELSE cipher_loop((offset + 1) % Len(cipher_bytes), Tail(rest),
                     Append(encrypted_bytes,
                            Xor(Head(rest), cipher_bytes[offset + 1])))

\* A cipher that starts every call at the offset it was created with.
cipher_restarting(c, bytes) ==
    IF c.method = EMPTY_CIPHER
    THEN [cipher |-> c, bytes |-> bytes, raised |-> FALSE]
    ELSE [cipher_loop(c.offset, bytes, <<>>) EXCEPT !.cipher = c]

\* c.cipher(bytes): the object after the call, the bytes returned, and
\* whether the call raised.
cipher(c, bytes) ==
    IF c.method = EMPTY_CIPHER
    THEN [cipher |-> c, bytes |-> bytes, raised |-> FALSE]
    ELSE cipher_loop(c.offset, bytes, <<>>)

\* The parts of the model that a specification does not run stay as they
\* are here.
ServerIdle == conn = <<>> /\ store = <<>>
HandshakeIdle ==
    /\ peer = <<>> /\ pos = 0 /\ hs_pc = "idle"
    /\ cipher_from_wasp = WaspCipher /\ frames = <<>>
CipherIdle ==
    seed = 0 /\ data = <<>> /\ once = <<>> /\ twice = <<>> /\ cipher_pc = "idle"
WaspsIdle == wasps = <<>> /\ last = <<>> /\ ui = <<>>

\* ------------------------------------------------------------------ Init
\* The session part before the agent connects.
SessionIdle ==
    /\ now = 0
    /\ known = FALSE
    /\ tasking = <<>>
    /\ response = <<>>
    /\ submitted = <<>>
    /\ pc = "idle"
    /\ commands = <<>>
    /\ idx = 0
    /\ wire = <<>>
    /\ marked = <<>>
    /\ read = {}

Init ==
    /\ SessionIdle
    /\ WaspsIdle
    /\ ServerIdle
    /\ HandshakeIdle
    /\ CipherIdle

\* ------------------------------------------------------------- the clock
Tick ==
    /\ now < MaxTime
    /\ now' = now + 1
    /\ UNCHANGED <<known, tasking, response, submitted, pc, commands, idx, wire, marked, read>>
    /\ UNCHANGED beside_session

\* --------------------------------------------------------- operator tool
\* WaspUI: the operator runs a command on the selected agent; the tool
\* creates the command instance and calls submit_task at once.
SubmitCommand(op, uri) ==
    /\ known
    /\ Len(submitted) < MaxTasks
    /\ LET command == [proc |-> op, uri |-> uri, task |-> Len(submitted) + 1]
       IN  /\ tasking' = submit_task(tasking, now, command)
           /\ submitted' = Append(submitted,
                  [command |-> command, path |-> TaskPath(now, command),
                   drain |-> pc \in {"has_tasks", "get_tasks", "send", "recv"}])
    /\ UNCHANGED <<now, known, response, pc,
                   commands, idx, wire, marked, read>>
    /\ UNCHANGED beside_session

\* ----------------------------------------------- WaspMalware.__init__
\* How many identifiers uuid.uuid4() hands out.
MaxUuids == 2

\* The values uuid.uuid4() may return.
UuidNames == {"uuid-1", "uuid-2", "uuid-3", "uuid-4"}

\* The headers of a survey that declares everything WaspMalware reads.
SurveyHeaders ==
    ("Trojan-ID" :> "abc123") @@ ("Trojan-Hostname" :> "h1")
    @@ ("Trojan-Machine" :> "x86_64") @@ ("Trojan-Platform" :> "Linux")

\* The surveys an agent sends: with and without its identifier, with and
\* without its machine and platform; and one whose identifier holds a path
\* separator.
Surveys ==
    {[h \in keys |-> SurveyHeaders[h]] :
        keys \in {DOMAIN SurveyHeaders \ (id \cup machine) :
                    id \in {{}, {"Trojan-ID"}},
                    machine \in {{}, {"Trojan-Machine", "Trojan-Platform"}}}}
    \cup {[SurveyHeaders EXCEPT !["Trojan-ID"] = "abc123/tasking"]}

\* An empty agent directory: the four directories and no wasp.json.
NewWasp ==
    [wasp_json |-> <<>>, tasking |-> <<>>, response |-> <<>>, collection |-> {}]

\* A constructor that makes the agent's directories anew.
WaspMalwareAnew(dirs, headers) ==
    LET wasp_id == IF "Trojan-ID" \in DOMAIN headers
                   THEN headers["Trojan-ID"]
                   ELSE CHOOSE u \in UuidNames : u \notin DOMAIN dirs
    IN  [wasp_id |-> wasp_id, raised |-> FALSE,
         wasps |-> [d \in DOMAIN dirs \cup {wasp_id} |->
                      IF d = wasp_id
                      THEN [NewWasp EXCEPT !.wasp_json = headers]
                      ELSE dirs[d]]]

\* WaspMalware.__init__ on the directories dirs: wasp_id is the declared
\* Trojan-ID or a new uuid4; the four directories are made if they are not
\* there; WaspArchitecture("Unknown") and WaspPlatform(None) raise
\* ValueError; then wasp.json is written.
\* wasp_directory is WASPS_PATH / str(wasp_id): for the identifier
\* "abc123/tasking" that path is the tasking directory of the agent abc123
\* (mkdir(parents=True) makes abc123 when it is not there), so the four
\* directories and wasp.json become entries of that directory.  Entries of
\* a tasking directory that are not command files are named <<-1, k>>:
\* 1..4 the four directories, 5 wasp.json.
WaspMalware(dirs, headers) ==
    LET wasp_id == IF "Trojan-ID" \in DOMAIN headers
                   THEN headers["Trojan-ID"]
                   ELSE CHOOSE u \in UuidNames : u \notin DOMAIN dirs
        parents == IF wasp_id = "abc123/tasking" THEN {"abc123"} ELSE {}
        raised == \/ "Trojan-Machine" \notin DOMAIN headers
                  \/ "Trojan-Platform" \notin DOMAIN headers
        entries == {<<-1, k>> : k \in IF raised THEN 1..4 ELSE 1..5}
        inside(tasks) ==
            [q \in DOMAIN tasks \cup entries |->
                IF q \in DOMAIN tasks /\ q[2] # 5 THEN tasks[q]
                ELSE IF q[2] = 5 THEN headers ELSE "directory"]
        made == [d \in DOMAIN dirs \cup {wasp_id} \cup parents |->
                   LET dir == IF d \in DOMAIN dirs THEN dirs[d] ELSE NewWasp
                   IN  IF d \in parents
                       THEN [dir EXCEPT !.tasking = inside(@)]
                       ELSE dir]
    IN  [wasp_id |-> wasp_id, raised |-> raised,
         wasps |-> IF raised THEN made
                   ELSE [made EXCEPT ![wasp_id].wasp_json = headers]]

\* ------------------------------------------------------------ WaspServer
\* The frames of the wire history.
Frame(dir, kind, task) == [dir |-> dir, kind |-> kind, task |-> task]

\* The tasks sent on this connection, in order.
SentTasks == SelectSeq(wire, LAMBDA f : f.dir = "send" /\ f.kind = "task")

\* The zero-length frames received on this connection.
EmptyFrames == SelectSeq(wire, LAMBDA f : f.dir = "recv" /\ f.kind = "nocontent")

\* magic_secret = struct.pack("!I", 0x75636573)
magic_secret == "uces"

\* What the peer may send as its handshake.
Magics == {magic_secret, "GET "}
ReservedBytes == {0, 1}
MethodBytes == {0, 1, 2}

\* What receive_result may meet: the connection closed, a zero-length frame,
\* a frame whose body is no JSON, a frame with a JSON body.
Replies == {"closed", "nocontent", "garbage", "content"}

\* The positions of handle() inside the drain loop.
DrainPcs == {"has_tasks", "get_tasks", "send", "recv"}

\* socketserver: the agent's connection is accepted and a fresh WaspServer
\* handles it.
Accept ==
    /\ pc = "idle"
    /\ pc' = "handshake_from_wasp"
    /\ commands' = <<>>
    /\ idx' = 0
    /\ wire' = <<>>
    /\ UNCHANGED <<now, known, tasking, response, submitted, marked, read>>
    /\ UNCHANGED beside_session

\* handshake() answering before the survey: handshake_to_wasp is called
\* right after handshake_from_wasp, and again where handshake() calls it.
HandshakeFromWaspAnswering(magic, reserved, method) ==
    /\ pc = "handshake_from_wasp"
    /\ IF magic # magic_secret \/ reserved # 0
          \/ method \notin {EMPTY_CIPHER, SIMPLE_CIPHER}
       THEN /\ pc' = "ABORTED"
            /\ UNCHANGED wire
       ELSE /\ pc' = "survey"
            /\ wire' = wire \o <<Frame("recv", "handshake", 0),
                                 Frame("send", "handshake", 0)>>
    /\ UNCHANGED <<now, known, tasking, response, submitted,
                   commands, idx, marked, read>>
    /\ UNCHANGED beside_session

\* A handshake that greets before it validates: the controller's half goes
\* out first, whatever the peer sent.
HandshakeFromWaspGreeting(magic, reserved, method) ==
    /\ pc = "handshake_from_wasp"
    /\ IF magic # magic_secret \/ reserved # 0
          \/ method \notin {EMPTY_CIPHER, SIMPLE_CIPHER}
       THEN /\ pc' = "ABORTED"
            /\ wire' = Append(wire, Frame("send", "handshake", 0))
       ELSE /\ pc' = "survey"
            /\ wire' = Append(wire, Frame("recv", "handshake", 0))
    /\ UNCHANGED <<now, known, tasking, response, submitted,
                   commands, idx, marked, read>>
    /\ UNCHANGED beside_session

\* WaspServer.handshake_from_wasp: the peer sends magic, reserved byte and
\* method byte (and an offset byte for SIMPLE_CIPHER).  The cipher objects
\* the method selects act on bytes, below the frames this part tracks.
HandshakeFromWasp(magic, reserved, method) ==
    /\ pc = "handshake_from_wasp"
    /\ IF magic # magic_secret \/ reserved # 0
          \/ method \notin {EMPTY_CIPHER, SIMPLE_CIPHER}
       THEN /\ pc' = "ABORTED"
            /\ UNCHANGED wire
       ELSE /\ pc' = "survey"
            /\ wire' = Append(wire, Frame("recv", "handshake", 0))
    /\ UNCHANGED <<now, known, tasking, response, submitted,
                   commands, idx, marked, read>>
    /\ UNCHANGED beside_session

\* WaspServer.handshake, the survey: receive_result, then WaspMalware(survey)
\* creates the agent's directories and writes its identity record.  The
\* reply "content" is a survey with every header WaspMalware reads, the
\* reply "bare" one with Trojan-ID and Trojan-Hostname only.
ReceiveSurvey(reply) ==
    /\ pc = "survey"
    /\ LET headers == IF reply = "content" THEN SurveyHeaders
                      ELSE [h \in {"Trojan-ID", "Trojan-Hostname"} |->
                              SurveyHeaders[h]]
       IN  IF reply \in {"content", "bare"}
              /\ ~WaspMalware(<<>>, headers).raised
           THEN /\ known' = TRUE
                /\ pc' = "handshake_to_wasp"
           ELSE /\ pc' = "ABORTED"
                /\ UNCHANGED known
    /\ wire' = IF reply = "closed" THEN wire
               ELSE Append(wire, Frame("recv", reply, 0))
    /\ UNCHANGED <<now, tasking, response, submitted, commands, idx, marked, read>>
    /\ UNCHANGED beside_session

\* WaspServer.handshake_to_wasp: magic, reserved byte, method byte.
HandshakeToWasp ==
    /\ pc = "handshake_to_wasp"
    /\ wire' = Append(wire, Frame("send", "handshake", 0))
    /\ pc' = "ack"
    /\ UNCHANGED <<now, known, tasking, response, submitted, commands, idx, marked, read>>
    /\ UNCHANGED beside_session

\* handshake() without its last line: the drain loop starts and no
\* handshake command has been sent.
SendHandshakeCommandSkipped ==
    /\ pc = "ack"
    /\ pc' = "has_tasks"
    /\ UNCHANGED <<now, known, tasking, response, submitted, commands, idx, wire, marked, read>>
    /\ UNCHANGED beside_session

\* WaspServer.handshake: send_command(WaspCommandHandshake()).
SendHandshakeCommand ==
    /\ pc = "ack"
    /\ wire' = Append(wire, Frame("send", "ack", 0))
    /\ pc' = "has_tasks"
    /\ UNCHANGED <<now, known, tasking, response, submitted, commands, idx, marked, read>>
    /\ UNCHANGED beside_session

\* The queue read once: the while loop ends when the list it already
\* iterated is exhausted, without testing the queue again.
HasTasksOnce ==
    /\ pc = "has_tasks"
    /\ pc' = IF commands = <<>> /\ has_tasks(tasking, ServerProc)
             THEN "get_tasks" ELSE "DRAINED"
    /\ UNCHANGED <<now, known, tasking, response, submitted, commands, idx, wire, marked, read>>
    /\ UNCHANGED beside_session

\* handle(): while self.wasp.has_tasks()
HasTasks ==
    /\ pc = "has_tasks"
    /\ pc' = IF get_tasks_raises(tasking) THEN "ABORTED"
             ELSE IF has_tasks(tasking, ServerProc) THEN "get_tasks"
             ELSE "DRAINED"
    /\ UNCHANGED <<now, known, tasking, response, submitted, commands, idx, wire, marked, read>>
    /\ UNCHANGED beside_session

\* handle(): commands = self.wasp.get_tasks(), and the for loop starts.
GetTasks ==
    /\ pc = "get_tasks"
    /\ IF get_tasks_raises(tasking)
       THEN /\ pc' = "ABORTED"
            /\ UNCHANGED <<commands, idx, read>>
       ELSE /\ commands' = get_tasks(tasking, ServerProc)
            /\ idx' = 1
            /\ pc' = IF Len(commands') = 0 THEN "has_tasks" ELSE "send"
            /\ read' = read \cup {commands'[k].task : k \in DOMAIN commands'}
    /\ UNCHANGED <<now, known, tasking, response, submitted, wire, marked>>
    /\ UNCHANGED beside_session

\* A pipelined send: the loop goes on to the next command without waiting
\* for the response.
SendCommandPipelined ==
    /\ pc = "send"
    /\ wire' = Append(wire, Frame("send", "task", commands[idx].task))
    /\ idx' = idx + 1
    /\ pc' = IF idx + 1 > Len(commands) THEN "has_tasks" ELSE "send"
    /\ UNCHANGED <<now, known, tasking, response, submitted, commands, marked, read>>
    /\ UNCHANGED beside_session

\* A handler that goes on after a failure: the command at hand is sent
\* again.
SendCommandAfterFailure ==
    /\ pc \in {"send", "ABORTED"}
    /\ idx \in DOMAIN commands
    /\ wire' = Append(wire, Frame("send", "task", commands[idx].task))
    /\ pc' = "recv"
    /\ UNCHANGED <<now, known, tasking, response, submitted, commands, idx, marked, read>>
    /\ UNCHANGED beside_session

\* handle(): self.send_command(command)
SendCommand ==
    /\ pc = "send"
    /\ wire' = Append(wire, Frame("send", "task", commands[idx].task))
    /\ pc' = "recv"
    /\ UNCHANGED <<now, known, tasking, response, submitted, commands, idx, marked, read>>
    /\ UNCHANGED beside_session

\* handle(): the for loop moves to the next command, or the while loop
\* tests has_tasks again.
NextCommand ==
    /\ idx' = idx + 1
    /\ pc' = IF idx + 1 > Len(commands) THEN "has_tasks" ELSE "send"

\* A submit_response that lets the command handle the response before the
\* record is written: a handler that fails leaves no record.
ReceiveResultHandlerFirst(reply, handler_ok) ==
    /\ pc = "recv"
    /\ wire' = IF reply = "closed" THEN wire
               ELSE Append(wire, Frame("recv", reply, 0))
    /\ CASE reply \in {"closed", "garbage"} ->
              /\ pc' = "ABORTED"
              /\ UNCHANGED <<tasking, response, idx, marked>>
         [] reply = "nocontent" ->
              /\ NextCommand
              /\ UNCHANGED <<tasking, response, marked>>
         [] reply = "content" ->
              IF ~handler_ok
              THEN /\ pc' = "ABORTED"
                   /\ UNCHANGED <<tasking, response, idx, marked>>
              ELSE /\ response' = submit_response(response, now, commands[idx])
                   /\ IF ~remove_task_raises(tasking, ServerProc, commands[idx])
                      THEN /\ tasking' = remove_task(tasking, ServerProc,
                                                     commands[idx])
                           /\ marked' = Append(marked, commands[idx].task)
                           /\ NextCommand
                      ELSE /\ pc' = "ABORTED"
                           /\ UNCHANGED <<tasking, idx, marked>>
    /\ UNCHANGED <<now, known, submitted, commands, read>>
    /\ UNCHANGED beside_session

\* handle(): response = self.receive_result(); if response:
\* command.submit_response(response); command.mark_complete().
\* handler_ok: whether the command's handle_response returns.  An exception
\* of handle_response or of remove_task's unpack leaves handle().
ReceiveResult(reply, handler_ok) ==
    /\ pc = "recv"
    /\ wire' = IF reply = "closed" THEN wire
               ELSE Append(wire, Frame("recv", reply, 0))
    /\ CASE reply \in {"closed", "garbage"} ->
              /\ pc' = "ABORTED"
              /\ UNCHANGED <<tasking, response, idx, marked>>
         [] reply = "nocontent" ->
              /\ NextCommand
              /\ UNCHANGED <<tasking, response, marked>>
         [] reply = "content" ->
              /\ response' = submit_response(response, now, commands[idx])
              /\ IF handler_ok
                    /\ ~remove_task_raises(tasking, ServerProc, commands[idx])
                 THEN /\ tasking' = remove_task(tasking, ServerProc, commands[idx])
                      /\ marked' = Append(marked, commands[idx].task)
                      /\ NextCommand
                 ELSE /\ pc' = "ABORTED"
                      /\ UNCHANGED <<tasking, idx, marked>>
    /\ UNCHANGED <<now, known, submitted, commands, read>>
    /\ UNCHANGED beside_session

\* ------------------------------------------------------------------ Next
Next ==
    \/ Tick
    \/ \E op \in Operators, uri \in Verbs \cup Unregistered :
          SubmitCommand(op, uri)
    \/ Accept
    \/ \E magic \in Magics, reserved \in ReservedBytes, method \in MethodBytes :
          HandshakeFromWasp(magic, reserved, method)
    \/ \E reply \in Replies \cup {"bare"} : ReceiveSurvey(reply)
    \/ HandshakeToWasp
    \/ SendHandshakeCommand
    \/ HasTasks
    \/ GetTasks
    \/ SendCommand
    \/ \E reply \in Replies, handler_ok \in BOOLEAN :
          /\ reply = "nocontent" => Len(EmptyFrames) < MaxEmpty
          /\ ReceiveResult(reply, handler_ok)

Spec == Init /\ [][Next]_vars

\* ------------------------------------------- submit_task, step by step
\* Path.write_bytes is open(mode='wb') and then write: between the two the
\* file is there and empty.  json.loads raises on an empty file, as unpack
\* does on every content that names no registered class; the content of
\* such a file is modelled as a packed command without a verb.
Truncated == [uri |-> "", headers |-> 0]

\* submit_task up to the open: the entry is created, or emptied when the
\* name is in use.  One writer is between open and write at a time.
OpenTask(op, uri) ==
    /\ known
    /\ Len(submitted) < MaxTasks
    /\ Truncated \notin Range(tasking)
    /\ LET command == [proc |-> op, uri |-> uri, task |-> Len(submitted) + 1]
       IN  /\ tasking' = write_bytes(tasking, TaskPath(now, command), Truncated)
           /\ submitted' = Append(submitted,
                  [command |-> command, path |-> TaskPath(now, command),
                   drain |-> pc \in {"has_tasks", "get_tasks", "send", "recv"}])
    /\ UNCHANGED <<now, known, response, pc,
                   commands, idx, wire, marked, read>>
    /\ UNCHANGED beside_session

\* submit_task from the write on: the packed command goes into the file the
\* writer opened.
WriteTask ==
    /\ \E i \in DOMAIN submitted :
          /\ submitted[i].path \in DOMAIN tasking
          /\ tasking[submitted[i].path] = Truncated
          /\ tasking' = write_bytes(tasking, submitted[i].path,
                                    pack(submitted[i].command))
    /\ UNCHANGED <<now, known, response, submitted, pc,
                   commands, idx, wire, marked, read>>
    /\ UNCHANGED beside_session

\* The session with operators whose submit_task runs beside the handler.
RaceNext ==
    \/ Tick
    \/ \E op \in Operators, uri \in Verbs : OpenTask(op, uri)
    \/ WriteTask
    \/ Accept
    \/ \E magic \in Magics, reserved \in ReservedBytes, method \in MethodBytes :
          HandshakeFromWasp(magic, reserved, method)
    \/ \E reply \in Replies : ReceiveSurvey(reply)
    \/ HandshakeToWasp
    \/ SendHandshakeCommand
    \/ HasTasks
    \/ GetTasks
    \/ SendCommand
    \/ \E reply \in Replies, handler_ok \in BOOLEAN :
          /\ reply = "nocontent" => Len(EmptyFrames) < MaxEmpty
          /\ ReceiveResult(reply, handler_ok)

RaceSpec == Init /\ [][RaceNext]_vars

\* The runs in which the agent answers every task with a non-empty frame and
\* every response handler returns.  The handler's thread keeps running and
\* the agent keeps answering; the operators and the clock may stop (at most
\* MaxTasks commands are submitted).
LiveNext ==
    \/ Tick
    \/ \E op \in Operators, uri \in Verbs : SubmitCommand(op, uri)
    \/ Accept
    \/ \E magic \in Magics, reserved \in ReservedBytes, method \in MethodBytes :
          HandshakeFromWasp(magic, reserved, method)
    \/ \E reply \in Replies : ReceiveSurvey(reply)
    \/ HandshakeToWasp
    \/ SendHandshakeCommand
    \/ HasTasks
    \/ GetTasks
    \/ SendCommand
    \/ ReceiveResult("content", TRUE)

LiveSpec ==
    /\ Init
    /\ [][LiveNext]_vars
    /\ WF_vars(HasTasks)
    /\ WF_vars(GetTasks)
    /\ WF_vars(SendCommand)
    /\ WF_vars(ReceiveResult("content", TRUE))

\* ------------------------------------------------- several connections
\* socketserver.ThreadingTCPServer gives every accepted connection a thread
\* and a WaspServer instance of its own; the agents' directories are shared
\* through the file system.
Conns == {1, 2}

\* The Trojan-ID values the agents declare in their survey.
Agents == {"a", "b"}

\* The offset bytes the agents send with SIMPLE_CIPHER in this part.
ServerOffsets == {0, 254, 255}

\* The body lengths of the envelopes the agents send in this part.
BodyLens == {2}

\* n bytes received (their values do not matter to the offsets).
Zeros(n) == [i \in 1..n |-> 0]

\* A fresh WaspServer instance: the class attributes cipher_to_wasp and
\* cipher_from_wasp, no wasp yet.  empty counts the zero-length answers.
NewHandler ==
    [pc |-> "handshake_from_wasp", wasp |-> "none",
     cipher_to_wasp |-> WaspCipher, cipher_from_wasp |-> WaspCipher,
     commands |-> <<>>, idx |-> 0, empty |-> 0]

\* The tasking directory after each operator of S submitted one command in
\* second 0.
RECURSIVE QueueOf(_)
QueueOf(S) ==
    IF S = {} THEN <<>>
    ELSE LET op == CHOOSE o \in S : TRUE
         IN  submit_task(QueueOf(S \ {op}), 0,
                         [proc |-> op, uri |-> "command", task |-> op])

\* The agents connected before: their directories exist, and every operator
\* submitted one task to each agent since.
ServerInit ==
    /\ conn = [c \in Conns |-> [NewHandler EXCEPT !.pc = "idle"]]
    /\ store = [a \in Agents |->
                  [tasking |-> QueueOf(Operators), response |-> <<>>]]
    /\ SessionIdle
    /\ WaspsIdle
    /\ HandshakeIdle
    /\ CipherIdle

\* An exception ends every handler thread, not only the one it was raised
\* in.
AbortedAll(c) == [d \in Conns |-> [conn[d] EXCEPT !.pc = "ABORTED"]]

\* An exception leaves handle() of connection c: socketserver closes that
\* request.
Aborted(c) == [conn EXCEPT ![c].pc = "ABORTED"]

\* One cipher object shared by all handlers: deciphering on one connection
\* moves the offset of every connection that negotiated SIMPLE_CIPHER.
installed_shared(cs, c, from_wasp) ==
    [d \in Conns |->
        IF d = c \/ (cs[d].cipher_from_wasp.method = SIMPLE_CIPHER
                     /\ from_wasp.method = SIMPLE_CIPHER)
        THEN [cs[d] EXCEPT !.cipher_from_wasp = from_wasp]
        ELSE cs[d]]

\* self.cipher_from_wasp after a call of its cipher(): the object belongs
\* to the instance of connection c.
installed(cs, c, from_wasp) == [cs EXCEPT ![c].cipher_from_wasp = from_wasp]

\* receive_result on n body bytes: the inbound cipher after it, and whether
\* it raised.  A closed connection raises before any byte is deciphered; a
\* zero length returns None after the four length bytes.
receive_result(from_wasp, reply, n) ==
    IF reply = "closed" THEN [cipher |-> from_wasp, raised |-> TRUE]
    ELSE LET len == cipher(from_wasp, Zeros(4))
         IN  IF len.raised THEN [cipher |-> len.cipher, raised |-> TRUE]
             ELSE IF reply = "nocontent"
             THEN [cipher |-> len.cipher, raised |-> FALSE]
             ELSE [cipher |-> cipher(len.cipher, Zeros(n)).cipher,
                   raised |-> reply = "garbage"]

ServerAccept(c) ==
    /\ conn[c].pc = "idle"
    /\ conn' = [conn EXCEPT ![c] = NewHandler]
    /\ UNCHANGED store
    /\ UNCHANGED beside_server

\* handshake_from_wasp as a whole: it raises, or it installs the cipher of
\* the method byte.
ServerHandshakeFromWasp(c, accepted, method, offset) ==
    /\ conn[c].pc = "handshake_from_wasp"
    /\ conn' = IF ~accepted THEN Aborted(c)
               ELSE [conn EXCEPT
                       ![c].pc = "survey",
                       ![c].cipher_from_wasp =
                           IF method = EMPTY_CIPHER THEN WaspCipher
                           ELSE WaspSimpleCipher(offset)]
    /\ UNCHANGED store
    /\ UNCHANGED beside_server

\* handshake(): the survey names the agent (Trojan-ID).
ServerReceiveSurvey(c, reply, n, id) ==
    /\ conn[c].pc = "survey"
    /\ LET r == receive_result(conn[c].cipher_from_wasp, reply, n)
       IN  conn' = IF r.raised \/ reply # "content"
                   THEN installed(Aborted(c), c, r.cipher)
                   ELSE installed([conn EXCEPT ![c].pc = "handshake_to_wasp",
                                               ![c].wasp = id], c, r.cipher)
    /\ UNCHANGED store
    /\ UNCHANGED beside_server

ServerHandshakeToWasp(c) ==
    /\ conn[c].pc = "handshake_to_wasp"
    /\ conn' = [conn EXCEPT ![c].pc = "ack", ![c].cipher_to_wasp = WaspCipher]
    /\ UNCHANGED store
    /\ UNCHANGED beside_server

\* send_command: self.cipher_to_wasp.cipher(packed)
ServerSendHandshakeCommand(c) ==
    /\ conn[c].pc = "ack"
    /\ conn' = [conn EXCEPT
                  ![c].pc = "has_tasks",
                  ![c].cipher_to_wasp = cipher(@, Zeros(1)).cipher]
    /\ UNCHANGED store
    /\ UNCHANGED beside_server

ServerHasTasks(c) ==
    /\ conn[c].pc = "has_tasks"
    /\ LET dir == store[conn[c].wasp].tasking
       IN  conn' = IF get_tasks_raises(dir) THEN Aborted(c)
                   ELSE [conn EXCEPT ![c].pc =
                           IF has_tasks(dir, ServerProc) THEN "get_tasks"
                           ELSE "DRAINED"]
    /\ UNCHANGED store
    /\ UNCHANGED beside_server

ServerGetTasks(c) ==
    /\ conn[c].pc = "get_tasks"
    /\ LET dir == store[conn[c].wasp].tasking
           got == get_tasks(dir, ServerProc)
       IN  conn' = IF get_tasks_raises(dir) THEN Aborted(c)
                   ELSE [conn EXCEPT
                           ![c].commands = got,
                           ![c].idx = 1,
                           ![c].pc = IF Len(got) = 0 THEN "has_tasks"
                                     ELSE "send"]
    /\ UNCHANGED store
    /\ UNCHANGED beside_server

ServerSendCommand(c) ==
    /\ conn[c].pc = "send"
    /\ conn' = [conn EXCEPT
                  ![c].pc = "recv",
                  ![c].cipher_to_wasp = cipher(@, Zeros(1)).cipher]
    /\ UNCHANGED store
    /\ UNCHANGED beside_server

\* The for loop of connection c moves on.
ServerNextCommand(cs, c) ==
    [cs EXCEPT ![c].idx = @ + 1,
               ![c].pc = IF cs[c].idx + 1 > Len(cs[c].commands)
                         THEN "has_tasks" ELSE "send"]

ServerReceiveResult(c, reply, n, handler_ok) ==
    /\ conn[c].pc = "recv"
    /\ LET h == conn[c]
           command == h.commands[h.idx]
           dirs == store[h.wasp]
           r == receive_result(h.cipher_from_wasp, reply, n)
       IN  IF r.raised
           THEN /\ conn' = installed(Aborted(c), c, r.cipher)
                /\ UNCHANGED store
           ELSE IF reply = "nocontent"
           THEN /\ conn' = installed(
                             ServerNextCommand(
                                 [conn EXCEPT ![c].empty = @ + 1], c),
                             c, r.cipher)
                /\ UNCHANGED store
           ELSE IF handler_ok
                   /\ ~remove_task_raises(dirs.tasking, ServerProc, command)
           THEN /\ conn' = installed(ServerNextCommand(conn, c), c, r.cipher)
                /\ store' = [store EXCEPT
                     ![h.wasp].response = submit_response(@, 0, command),
                     ![h.wasp].tasking = remove_task(@, ServerProc, command)]
           ELSE /\ conn' = installed(Aborted(c), c, r.cipher)
                /\ store' = [store EXCEPT
                     ![h.wasp].response = submit_response(@, 0, command)]
    /\ UNCHANGED beside_server

\* The steps of the handler thread of connection c.
Handler(c) ==
    \/ ServerAccept(c)
    \/ \E accepted \in BOOLEAN, method \in {EMPTY_CIPHER, SIMPLE_CIPHER},
          offset \in ServerOffsets :
          ServerHandshakeFromWasp(c, accepted, method, offset)
    \/ \E reply \in Replies, n \in BodyLens, id \in Agents :
          ServerReceiveSurvey(c, reply, n, id)
    \/ ServerHandshakeToWasp(c)
    \/ ServerSendHandshakeCommand(c)
    \/ ServerHasTasks(c)
    \/ ServerGetTasks(c)
    \/ ServerSendCommand(c)
    \/ \E reply \in Replies, n \in BodyLens, handler_ok \in BOOLEAN :
          /\ reply = "nocontent" => conn[c].empty < MaxEmpty
          /\ ServerReceiveResult(c, reply, n, handler_ok)

ServerNext == \E c \in Conns : Handler(c)

ServerSpec == ServerInit /\ [][ServerNext]_vars

\* ------------------------------------------- handshake_from_wasp, in bytes
\* magic_secret as bytes: 0x75 0x63 0x65 0x73.
magic_bytes == <<117, 99, 101, 115>>

\* What a peer may send in place of the magic: the magic, "GET ", and the
\* magic with its last byte wrong.
MagicSent == {magic_bytes, <<71, 69, 84, 32>>, <<117, 99, 101, 0>>}

\* Every value of the offset byte.
OffsetBytes == 0..255

\* The bytes of what follows the handshake.
BodyBytes == {0, 255}

\* The byte strings of length up to MaxBody over BodyBytes.
Bodies == UNION {[1..n -> BodyBytes] : n \in 0..MaxBody}

\* The streams a peer sends before it closes: a good handshake with
\* SIMPLE_CIPHER and every offset byte; every combination of magic, reserved
\* byte and method byte; and a good handshake cut short.
Streams ==
    {magic_bytes \o <<0, SIMPLE_CIPHER, o>> \o b :
        o \in OffsetBytes, b \in Bodies}
    \cup {m \o <<r, method>> \o b :
            m \in MagicSent, r \in ReservedBytes, method \in MethodBytes,
            b \in Bodies}
    \cup {SubSeq(magic_bytes \o <<0, SIMPLE_CIPHER>>, 1, n) : n \in 0..6}

\* The bytes not yet read.
Unread == SubSeq(peer, pos + 1, Len(peer))

\* socket.recv(n): at least one and at most n of the unread bytes, or b''
\* when the peer has closed and nothing is left.
RecvSizes(n) ==
    IF Unread = <<>> THEN {0}
    ELSE 1..(IF n < Len(Unread) THEN n ELSE Len(Unread))

\* The handler's positions while handshake_from_wasp runs.
HandshakePcs == {"magic", "reserved", "method", "offset"}

HandshakeInit ==
    /\ peer \in Streams
    /\ pos = 0
    /\ hs_pc = "magic"
    /\ cipher_from_wasp = WaspCipher
    /\ frames = <<>>
    /\ SessionIdle
    /\ WaspsIdle
    /\ ServerIdle
    /\ CipherIdle

\* received_secret = self.request.recv(len(magic_secret))
RecvMagic(k) ==
    /\ hs_pc = "magic"
    /\ k \in RecvSizes(Len(magic_bytes))
    /\ pos' = pos + k
    /\ hs_pc' = IF SubSeq(Unread, 1, k) # magic_bytes
                THEN "HANDSHAKE_FAILED" ELSE "reserved"
    /\ UNCHANGED <<peer, cipher_from_wasp>>
    /\ UNCHANGED frames
    /\ UNCHANGED beside_handshake

\* The reserved field accepted whatever its value.
RecvReservedAny ==
    /\ hs_pc = "reserved"
    /\ \E k \in RecvSizes(1) :
          /\ pos' = pos + k
          /\ hs_pc' = IF k = 0 THEN "HANDSHAKE_FAILED" ELSE "method"
    /\ UNCHANGED <<peer, cipher_from_wasp>>
    /\ UNCHANGED frames
    /\ UNCHANGED beside_handshake

\* reserved_field = self.request.recv(1); it must be b'\x00'.
RecvReserved ==
    /\ hs_pc = "reserved"
    /\ \E k \in RecvSizes(1) :
          /\ pos' = pos + k
          /\ hs_pc' = IF SubSeq(Unread, 1, k) # <<0>>
                      THEN "HANDSHAKE_FAILED" ELSE "method"
    /\ UNCHANGED <<peer, cipher_from_wasp>>
    /\ UNCHANGED frames
    /\ UNCHANGED beside_handshake

\* A method byte that names no method taken as EMPTY_CIPHER.
RecvMethodLenient ==
    /\ hs_pc = "method"
    /\ \E k \in RecvSizes(1) :
          /\ pos' = pos + k
          /\ IF k = 0
             THEN /\ hs_pc' = "HANDSHAKE_FAILED"
                  /\ UNCHANGED cipher_from_wasp
             ELSE IF Unread[1] = SIMPLE_CIPHER
             THEN /\ hs_pc' = "offset"
                  /\ UNCHANGED cipher_from_wasp
             ELSE /\ hs_pc' = "length"
                  /\ cipher_from_wasp' = WaspCipher
    /\ UNCHANGED peer
    /\ UNCHANGED frames
    /\ UNCHANGED beside_handshake

\* method_raw = self.request.recv(1); struct.unpack raises on b'', and
\* WaspMethod(method_value) raises ValueError on a value that is no method.
RecvMethod ==
    /\ hs_pc = "method"
    /\ \E k \in RecvSizes(1) :
          /\ pos' = pos + k
          /\ IF k = 0 \/ Unread[1] \notin {EMPTY_CIPHER, SIMPLE_CIPHER}
             THEN /\ hs_pc' = "HANDSHAKE_FAILED"
                  /\ UNCHANGED cipher_from_wasp
             ELSE IF Unread[1] = EMPTY_CIPHER
             THEN /\ hs_pc' = "length"
                  /\ cipher_from_wasp' = WaspCipher
             ELSE /\ hs_pc' = "offset"
                  /\ UNCHANGED cipher_from_wasp
    /\ UNCHANGED peer
    /\ UNCHANGED frames
    /\ UNCHANGED beside_handshake

\* offset_raw = self.request.recv(1); struct.unpack raises on b''.
\* self.cipher_from_wasp = WaspSimpleCipher(offset)
RecvOffset ==
    /\ hs_pc = "offset"
    /\ \E k \in RecvSizes(1) :
          /\ pos' = pos + k
          /\ IF k = 0
             THEN /\ hs_pc' = "HANDSHAKE_FAILED"
                  /\ UNCHANGED cipher_from_wasp
             ELSE /\ hs_pc' = "length"
                  /\ cipher_from_wasp' = WaspSimpleCipher(Unread[1])
    /\ UNCHANGED peer
    /\ UNCHANGED frames
    /\ UNCHANGED beside_handshake

\* receive_result, the length field of the survey envelope:
\* self.request.recv(4), self.cipher_from_wasp.cipher, struct.unpack("!I").
\* b'' raises WaspException, an offset outside the table raises IndexError
\* in cipher(), fewer than four bytes raise struct.error.
ReceiveLength(k) ==
    /\ hs_pc = "length"
    /\ k \in RecvSizes(4)
    /\ pos' = pos + k
    /\ LET r == cipher(cipher_from_wasp, SubSeq(Unread, 1, k))
       IN  /\ cipher_from_wasp' = r.cipher
           /\ hs_pc' = IF k = 0 \/ r.raised \/ k < 4
                       THEN "RECEIVE_FAILED" ELSE "body"
    /\ UNCHANGED peer
    /\ UNCHANGED frames
    /\ UNCHANGED beside_handshake

HandshakeNext ==
    \/ \E k \in 0..4 : RecvMagic(k)
    \/ RecvReserved
    \/ RecvMethod
    \/ RecvOffset
    \/ \E k \in 0..4 : ReceiveLength(k)

HandshakeSpec == HandshakeInit /\ [][HandshakeNext]_vars

\* ------------------------------------- receive_result and receive_chunks
\* How many envelopes a peer sends before it closes.
MaxFrames == 2

\* struct.unpack("!I") and struct.unpack("!H"): big-endian.
RECURSIVE unpack_int(_)
unpack_int(bytes) ==
    IF bytes = <<>> THEN 0
    ELSE unpack_int(SubSeq(bytes, 1, Len(bytes) - 1)) * 256 + bytes[Len(bytes)]

\* The envelope {"headers":{"Transfer-Encoding":"chunked"}} in ASCII.
ChunkedEnvelope ==
    <<123, 34, 104, 101, 97, 100, 101, 114, 115, 34, 58, 123, 34, 84, 114,
      97, 110, 115, 102, 101, 114, 45, 69, 110, 99, 111, 100, 105, 110, 103,
      34, 58, 34, 99, 104, 117, 110, 107, 101, 100, 34, 125, 125>>

\* json.loads(raw_response.decode('utf-8')) and the look at its headers,
\* for the byte strings of these streams: {} and the object inside
\* ChunkedEnvelope are envelopes without the header, ChunkedEnvelope has it,
\* spaces around the text are skipped, and every other string is no JSON
\* object and ends receive_result with an exception.
json_loads(raw_response) ==
    LET text == SelectSeq(raw_response, LAMBDA b : b # 32)
    IN  IF text = ChunkedEnvelope THEN "chunked"
        ELSE IF text \in {<<123, 125>>, SubSeq(ChunkedEnvelope, 12, 42)}
        THEN "envelope"
        ELSE "raised"

\* An envelope as the agent frames it: struct.pack("!I", len(body)), body.
\* A chunk record is framed the same with two bytes of length.
Framed(width, body) ==
    [i \in 1..width |-> IF i = width THEN Len(body) ELSE 0] \o body

\* What an agent sends for one task: no content, the envelope {} without
\* and with a space after it, and a chunked envelope followed by a chunk of
\* four zero bytes and the terminator.
AgentFrames ==
    {Framed(4, <<>>), Framed(4, <<123, 125>>), Framed(4, <<123, 125, 32>>),
     Framed(4, ChunkedEnvelope) \o Framed(2, <<0, 0, 0, 0>>)
        \o Framed(2, <<>>)}

\* The byte strings an agent sends for up to n tasks.
RECURSIVE AgentStreams(_)
AgentStreams(n) ==
    IF n = 0 THEN {<<>>}
    ELSE AgentStreams(n - 1)
         \cup {s \o f : s \in AgentStreams(n - 1), f \in AgentFrames}

\* The ciphers the handshake may have installed for the inbound direction.
FrameCiphers == {WaspCipher, WaspSimpleCipher(17)}

\* What the agent's cipher object makes of its whole stream: the byte at i
\* XORed with the table entry i - 1 places after the offset.
Enciphered(c, plain) ==
    IF c.method = EMPTY_CIPHER THEN plain
    ELSE [i \in 1..Len(plain) |->
            Xor(plain[i],
                cipher_bytes[((c.offset + i - 1) % Len(cipher_bytes)) + 1])]

\* The handler after the handshake, about to call receive_result; the agent
\* enciphers its stream with the cipher of the handshake, and may close
\* before the last byte.
FrameInit ==
    /\ cipher_from_wasp \in FrameCiphers
    /\ \E plain \in AgentStreams(MaxFrames) :
          \E cut \in {0, 1} :
             /\ cut <= Len(plain)
             /\ peer = SubSeq(Enciphered(cipher_from_wasp, plain),
                              1, Len(plain) - cut)
    /\ pos = 0
    /\ hs_pc = "result_length"
    /\ frames = <<>>
    /\ SessionIdle
    /\ WaspsIdle
    /\ ServerIdle
    /\ CipherIdle

\* How many times recv returns fewer bytes than are asked for.
MaxShort == 1

\* The bodies and chunks read so far that are shorter than declared.
Shorts ==
    {i \in DOMAIN frames : /\ frames[i].outcome # "reading"
                           /\ Len(frames[i].body) < frames[i].length}

\* recv(n) for a body or a chunk: a size of RecvSizes(n), short of what
\* there is to deliver at most MaxShort times.
BodySizes(n) ==
    {k \in RecvSizes(n) :
        \/ Cardinality(Shorts) < MaxShort
        \/ \A j \in RecvSizes(n) : j <= k}

\* The record of frames for a length field read at pos.
FrameRead(kind, length, body, outcome) ==
    [kind |-> kind, at |-> pos, length |-> length, body |-> body,
     outcome |-> outcome]

\* The frame being read, with its body and outcome.
FrameDone(body, outcome) ==
    [frames EXCEPT ![Len(frames)].body = body,
                   ![Len(frames)].outcome = outcome]

\* A length field of zero followed by a read of the body.
RecvResultLengthThenBody(k) ==
    /\ hs_pc = "result_length"
    /\ k \in RecvSizes(4)
    /\ pos' = pos + k
    /\ LET r == cipher(cipher_from_wasp, SubSeq(Unread, 1, k))
       IN  /\ cipher_from_wasp' = r.cipher
           /\ IF k = 0 \/ r.raised \/ k < 4
              THEN /\ hs_pc' = "RECEIVE_FAILED"
                   /\ UNCHANGED frames
              ELSE /\ hs_pc' = "result_body"
                   /\ frames' = Append(frames,
                         FrameRead("result", unpack_int(r.bytes), <<>>,
                                   "reading"))
    /\ UNCHANGED peer
    /\ UNCHANGED beside_handshake

\* receive_result, the length field: self.request.recv(4), cipher,
\* struct.unpack("!I"); b'' raises WaspException, fewer than four bytes
\* raise struct.error, and a length of zero returns None.
RecvResultLength(k) ==
    /\ hs_pc = "result_length"
    /\ k \in RecvSizes(4)
    /\ pos' = pos + k
    /\ LET r == cipher(cipher_from_wasp, SubSeq(Unread, 1, k))
           result_length == unpack_int(r.bytes)
       IN  /\ cipher_from_wasp' = r.cipher
           /\ IF k = 0 \/ r.raised \/ k < 4
              THEN /\ hs_pc' = "RECEIVE_FAILED"
                   /\ UNCHANGED frames
              ELSE IF result_length = 0
              THEN /\ hs_pc' = "result_length"
                   /\ frames' = Append(frames,
                         FrameRead("result", 0, <<>>, "none"))
              ELSE /\ hs_pc' = "result_body"
                   /\ frames' = Append(frames,
                         FrameRead("result", result_length, <<>>, "reading"))
    /\ UNCHANGED peer
    /\ UNCHANGED beside_handshake

\* A receive_result that reads chunks after every envelope it parses,
\* whatever its headers say.
RecvResultBodyThenChunks(k) ==
    /\ hs_pc = "result_body"
    /\ k \in BodySizes(frames[Len(frames)].length)
    /\ pos' = pos + k
    /\ LET r == cipher(cipher_from_wasp, SubSeq(Unread, 1, k))
           parsed == IF r.raised THEN "raised" ELSE json_loads(r.bytes)
       IN  /\ cipher_from_wasp' = r.cipher
           /\ frames' = FrameDone(r.bytes, parsed)
           /\ hs_pc' = IF parsed = "raised" THEN "RECEIVE_FAILED"
                       ELSE "chunk_length"
    /\ UNCHANGED peer
    /\ UNCHANGED beside_handshake

\* receive_result, the body: self.request.recv(result_length), cipher,
\* json.loads; a chunked envelope switches to receive_chunks.
RecvResultBody(k) ==
    /\ hs_pc = "result_body"
    /\ k \in BodySizes(frames[Len(frames)].length)
    /\ pos' = pos + k
    /\ LET r == cipher(cipher_from_wasp, SubSeq(Unread, 1, k))
           parsed == IF r.raised THEN "raised" ELSE json_loads(r.bytes)
       IN  /\ cipher_from_wasp' = r.cipher
           /\ frames' = FrameDone(r.bytes, parsed)
           /\ hs_pc' = CASE parsed = "raised" -> "RECEIVE_FAILED"
                         [] parsed = "chunked" -> "chunk_length"
                         [] OTHER -> "result_length"
    /\ UNCHANGED peer
    /\ UNCHANGED beside_handshake

\* receive_chunks, the chunk size: self.request.recv(2), cipher,
\* struct.unpack("!H"); a size of zero ends the transfer.
RecvChunkLength(k) ==
    /\ hs_pc = "chunk_length"
    /\ k \in RecvSizes(2)
    /\ pos' = pos + k
    /\ LET r == cipher(cipher_from_wasp, SubSeq(Unread, 1, k))
           result_length == unpack_int(r.bytes)
       IN  /\ cipher_from_wasp' = r.cipher
           /\ IF k = 0 \/ r.raised \/ k < 2
              THEN /\ hs_pc' = "RECEIVE_FAILED"
                   /\ UNCHANGED frames
              ELSE IF result_length = 0
              THEN /\ hs_pc' = "result_length"
                   /\ frames' = Append(frames,
                         FrameRead("chunk", 0, <<>>, "end"))
              ELSE /\ hs_pc' = "chunk"
                   /\ frames' = Append(frames,
                         FrameRead("chunk", result_length, <<>>, "reading"))
    /\ UNCHANGED peer
    /\ UNCHANGED beside_handshake

\* receive_chunks, the chunk: self.request.recv(result_length), cipher,
\* received_bytes += raw_response.
RecvChunk(k) ==
    /\ hs_pc = "chunk"
    /\ k \in BodySizes(frames[Len(frames)].length)
    /\ pos' = pos + k
    /\ LET r == cipher(cipher_from_wasp, SubSeq(Unread, 1, k))
       IN  /\ cipher_from_wasp' = r.cipher
           /\ frames' = FrameDone(r.bytes,
                                  IF r.raised THEN "raised" ELSE "chunk")
           /\ hs_pc' = IF r.raised THEN "RECEIVE_FAILED" ELSE "chunk_length"
    /\ UNCHANGED peer
    /\ UNCHANGED beside_handshake

FrameNext ==
    \/ \E k \in 0..4 : RecvResultLength(k)
    \/ \E k \in 0..Len(peer) : RecvResultBody(k)
    \/ \E k \in 0..2 : RecvChunkLength(k)
    \/ \E k \in 0..Len(peer) : RecvChunk(k)

FrameSpec == FrameInit /\ [][FrameNext]_vars

\* ------------------------------------------ WaspSimpleCipher.cipher, twice
\* The bytes of the strings.
DataBytes == {0, 90, 255}

\* The seeds that index the table.
Seeds == 0..254

CipherInit ==
    /\ seed \in Seeds
    /\ data \in UNION {[1..n -> DataBytes] : n \in 0..MaxLen}
    /\ once = <<>>
    /\ twice = <<>>
    /\ cipher_pc = "first"
    /\ SessionIdle
    /\ WaspsIdle
    /\ ServerIdle
    /\ HandshakeIdle

\* WaspSimpleCipher(seed).cipher(data)
CipherFirst ==
    /\ cipher_pc = "first"
    /\ once' = cipher(WaspSimpleCipher(seed), data).bytes
    /\ cipher_pc' = "second"
    /\ UNCHANGED <<seed, data, twice>>
    /\ UNCHANGED beside_cipher

\* The first object used again: its offset is where the first call left it.
CipherSecondSameObject ==
    /\ cipher_pc = "second"
    /\ twice' = cipher(cipher(WaspSimpleCipher(seed), data).cipher, once).bytes
    /\ cipher_pc' = "done"
    /\ UNCHANGED <<seed, data, once>>
    /\ UNCHANGED beside_cipher

\* WaspSimpleCipher(seed).cipher(once), by a second object.
CipherSecond ==
    /\ cipher_pc = "second"
    /\ twice' = cipher(WaspSimpleCipher(seed), once).bytes
    /\ cipher_pc' = "done"
    /\ UNCHANGED <<seed, data, once>>
    /\ UNCHANGED beside_cipher

CipherNext == CipherFirst \/ CipherSecond

CipherSpec == CipherInit /\ [][CipherNext]_vars

\* --------------------------------------------- send_chunks, receive_chunks
\* send_chunks: chunk_size = 255
chunk_size == 255

\* A send_chunks that stops after the last chunk, without the terminator.
RECURSIVE send_chunks_unterminated(_, _)
send_chunks_unterminated(cipher_to_wasp, remaining) ==
    IF remaining = <<>>
    THEN <<>>
    ELSE LET n == IF Len(remaining) < chunk_size
                  THEN Len(remaining) ELSE chunk_size
             chunk_size_packed == <<n \div 256, n % 256>>
             sized == cipher(cipher_to_wasp, chunk_size_packed)
             encrypted_chunk == cipher(sized.cipher, SubSeq(remaining, 1, n))
         IN  chunk_size_packed \o encrypted_chunk.bytes
             \o send_chunks_unterminated(encrypted_chunk.cipher,
                            SubSeq(remaining, n + 1, Len(remaining)))

\* The while loop of send_chunks and the terminator after it: the bytes
\* given to sendall.  The chunk size goes through the cipher, which moves
\* its offset, and chunk_size_packed is what is sent.
RECURSIVE send_chunks(_, _)
send_chunks(cipher_to_wasp, remaining) ==
    IF remaining = <<>>
    THEN cipher(cipher_to_wasp, <<0, 0>>).bytes
    ELSE LET n == IF Len(remaining) < chunk_size
                  THEN Len(remaining) ELSE chunk_size
             chunk_size_packed == <<n \div 256, n % 256>>
             sized == cipher(cipher_to_wasp, chunk_size_packed)
             encrypted_chunk == cipher(sized.cipher, SubSeq(remaining, 1, n))
         IN  chunk_size_packed \o encrypted_chunk.bytes
             \o send_chunks(encrypted_chunk.cipher,
                            SubSeq(remaining, n + 1, Len(remaining)))

\* The byte strings given to send_chunks: up to two bytes under every
\* cipher, and strings that fill one chunk and that need two under the
\* cipher that leaves the bytes as they are.
Payloads(c) ==
    UNION {[1..n -> DataBytes] : n \in 0..2}
    \cup (IF c.method = SIMPLE_CIPHER THEN {}
          ELSE {[i \in 1..n |-> b] :
                   n \in {chunk_size, chunk_size + 1}, b \in DataBytes})

\* Two handlers with ciphers of the same method and offset: one is about
\* to call send_chunks(data), the other will call receive_chunks on what
\* the first sends.
ChunkInit ==
    /\ cipher_from_wasp \in FrameCiphers \cup {WaspSimpleCipher(254)}
    /\ data \in Payloads(cipher_from_wasp)
    /\ seed = 0
    /\ once = <<>>
    /\ twice = <<>>
    /\ cipher_pc = "send_chunks"
    /\ peer = <<>>
    /\ pos = 0
    /\ hs_pc = "idle"
    /\ frames = <<>>
    /\ SessionIdle
    /\ WaspsIdle
    /\ ServerIdle

\* send_chunks(data) by the first handler; the second enters
\* receive_chunks.
SendChunks ==
    /\ cipher_pc = "send_chunks"
    /\ once' = send_chunks(cipher_from_wasp, data)
    /\ peer' = once'
    /\ hs_pc' = "chunk_length"
    /\ cipher_pc' = "receive_chunks"
    /\ UNCHANGED <<seed, data, twice, pos, cipher_from_wasp, frames>>
    /\ UNCHANGED <<session_vars, server_vars, wasps_vars>>

\* received_bytes: the chunks appended so far.
RECURSIVE received_bytes(_)
received_bytes(read_frames) ==
    IF read_frames = <<>> THEN <<>>
    ELSE received_bytes(SubSeq(read_frames, 1, Len(read_frames) - 1))
         \o read_frames[Len(read_frames)].body

\* recv(n) returns k bytes: all that were asked for, or all the peer sent
\* before it closed.
Delivered(n, k) == k = n \/ (k = Len(Unread) /\ k < n)

ChunkNext ==
    \/ SendChunks
    \/ \E k \in 0..2 : Delivered(2, k) /\ RecvChunkLength(k)
    \/ \E k \in 0..Len(peer) :
          /\ hs_pc = "chunk"
          /\ Delivered(frames[Len(frames)].length, k)
          /\ RecvChunk(k)

ChunkSpec == ChunkInit /\ [][ChunkNext]_vars

\* ------------------------------------------------- get_dict and from_dict
\* The commands of the four classes an operator can queue, with the
\* attributes of each; breakpoint, start and end are attributes of a
\* download command that its class declares with the values True, 0, 1024.
Commands ==
    [name : {"download"}, path : {"/etc/passwd", "/tmp/a", "/"},
     breakpoint : BOOLEAN, start : {0, 10}, end : {1024, 20}]
    \cup [name : {"filelist"}, path : {"/etc/passwd", "/tmp/a", "/"}]
    \cup [name : {"command"}, command : {"id", "ls", ""}]
    \cup [name : {"proxy"}, reverse_port : {8080, 9000},
          destination_host : {"h1", "10.0.0.1"}, destination_port : {22, 80}]

\* get_dict of the four classes.
get_dict(c) ==
    [uri |-> c.name,
     headers |->
        CASE c.name = "download" ->
                ("File-Path" :> c.path) @@ ("Break-Point" :> c.breakpoint)
                @@ ("Begin-Position" :> c.start) @@ ("End-Position" :> c.end)
          [] c.name = "filelist" -> ("File-Path" :> c.path)
          [] c.name = "command" -> ("Command-Line" :> c.command)
          [] c.name = "proxy" ->
                ("Reverse-Port" :> c.reverse_port)
                @@ ("Dest-Host" :> c.destination_host)
                @@ ("Dest-Port" :> c.destination_port)]

\* from_dict of the class registered for source["uri"]: the constructor is
\* called with the headers from_dict reads, and the attributes it is not
\* given keep the values of the class.
from_dict(source) ==
    CASE source.uri = "download" ->
            [name |-> "download", path |-> source.headers["File-Path"],
             breakpoint |-> TRUE, start |-> 0, end |-> 1024]
      [] source.uri = "filelist" ->
            [name |-> "filelist", path |-> source.headers["File-Path"]]
      [] source.uri = "command" ->
            [name |-> "command", command |-> source.headers["Command-Line"]]
      [] source.uri = "proxy" ->
            [name |-> "proxy",
             reverse_port |-> source.headers["Reverse-Port"],
             destination_host |-> source.headers["Dest-Host"],
             destination_port |-> source.headers["Dest-Port"]]

\* A command before get_dict is called on it.
CommandInit ==
    /\ data \in Commands
    /\ seed = 0
    /\ once = <<>>
    /\ twice = <<>>
    /\ cipher_pc = "get_dict"
    /\ SessionIdle
    /\ WaspsIdle
    /\ ServerIdle
    /\ HandshakeIdle

\* once = data.get_dict()
GetDict ==
    /\ cipher_pc = "get_dict"
    /\ once' = get_dict(data)
    /\ cipher_pc' = "from_dict"
    /\ UNCHANGED <<seed, data, twice>>
    /\ UNCHANGED beside_cipher

\* twice = WASP_COMMAND_MAP.class_for_name(uri).from_dict(wasp, once)
FromDict ==
    /\ cipher_pc = "from_dict"
    /\ twice' = from_dict(once)
    /\ cipher_pc' = "decoded"
    /\ UNCHANGED <<seed, data, once>>
    /\ UNCHANGED beside_cipher

CommandNext == GetDict \/ FromDict

CommandSpec == CommandInit /\ [][CommandNext]_vars

\* ------------------------------------------------- the agents on disk
\* No agent directory yet.
WaspsInit ==
    /\ wasps = <<>>
    /\ last = [n |-> 0]
    /\ ui = [selected_wasp |-> "", running |-> TRUE]
    /\ SessionIdle
    /\ ServerIdle
    /\ HandshakeIdle
    /\ CipherIdle

\* uuid4 has an identifier left to hand out if headers declare none.
CanResolve(headers) ==
    \/ "Trojan-ID" \in DOMAIN headers
    \/ Cardinality(DOMAIN wasps \cap UuidNames) < MaxUuids

\* WaspServer.handshake: self.wasp = WaspMalware(survey)
Resolve(headers) ==
    /\ CanResolve(headers)
    /\ LET r == WaspMalware(wasps, headers)
       IN  /\ wasps' = r.wasps
           /\ last' = [n |-> 1 - last.n, call |-> "survey", from |-> headers,
                       wasp_id |-> r.wasp_id, raised |-> r.raised]
    /\ UNCHANGED <<ui, beside_wasps>>

\* WaspUI.wasps, for one directory: WaspMalware.unpack(wasp.json), and the
\* debug message that needs str(wasp).  read_bytes raises when the
\* directory has no wasp.json, and __str__ when wasp_id is a UUID.
Load(dir) ==
    /\ dir \in DOMAIN wasps
    /\ IF wasps[dir].wasp_json = <<>>
       THEN /\ last' = [n |-> 1 - last.n, call |-> "load", from |-> dir,
                        wasp_id |-> dir, raised |-> TRUE]
            /\ UNCHANGED wasps
       ELSE /\ CanResolve(wasps[dir].wasp_json)
            /\ LET r == WaspMalware(wasps, wasps[dir].wasp_json)
               IN  /\ wasps' = r.wasps
                   /\ last' = [n |-> 1 - last.n, call |-> "load", from |-> dir,
                               wasp_id |-> r.wasp_id,
                               raised |-> r.raised \/ r.wasp_id \in UuidNames]
    /\ UNCHANGED <<ui, beside_wasps>>

\* The operator queues a download for a listed agent (submit_task).
QueueTask(dir) ==
    /\ dir \in DOMAIN wasps
    /\ wasps[dir].wasp_json # <<>>
    /\ wasps' = [wasps EXCEPT ![dir].tasking =
                    submit_task(@, 0, [proc |-> 1, uri |-> "download",
                                       task |-> 1])]
    /\ last' = [n |-> 1 - last.n, call |-> "submit_task", from |-> dir,
                wasp_id |-> dir, raised |-> FALSE]
    /\ UNCHANGED <<ui, beside_wasps>>

\* The drain answers the first task of an agent: submit_response, the
\* download's handle_response writes the file, mark_complete.  get_tasks
\* reads every entry of the tasking directory: read_bytes raises on an
\* entry that is a directory, unpack on one that is not a command.
AnswerTask(dir) ==
    /\ dir \in DOMAIN wasps
    /\ wasps[dir].tasking # <<>>
    /\ IF \E q \in DOMAIN wasps[dir].tasking : q[1] < 0
       THEN /\ UNCHANGED wasps
            /\ last' = [n |-> 1 - last.n, call |-> "get_tasks", from |-> dir,
                        wasp_id |-> dir, raised |-> TRUE]
       ELSE /\ LET command == get_tasks(wasps[dir].tasking, ServerProc)[1]
               IN  wasps' = [wasps EXCEPT
                        ![dir].response = submit_response(@, 0, command),
                        ![dir].collection = @ \cup {command.task},
                        ![dir].tasking = remove_task(@, ServerProc, command)]
            /\ last' = [n |-> 1 - last.n, call |-> "submit_response",
                        from |-> dir, wasp_id |-> dir, raised |-> FALSE]
    /\ UNCHANGED <<ui, beside_wasps>>

\* The operator tool's `select`: WaspUI.select_wasp(to_select) inside the
\* prompt loop.  self.wasps loads every directory of WASPS_PATH, in the
\* order iterdir yields them, before the identifiers are compared: the first
\* directory whose load raises (no wasp.json: FileNotFoundError; a UUID
\* identifier: TypeError, after its new directory was made) ends the
\* property, and the prompt loop, which catches ArgumentError and
\* WaspException only.  When every load returns, the identifier is looked
\* for: WaspException when it is absent, which the loop catches.
SelectWasp(to_select) ==
    /\ ui.running
    /\ LET listed == DOMAIN wasps \ {"abc123/tasking"}
           failing == {d \in listed :
                          \/ wasps[d].wasp_json = <<>>
                          \/ "Trojan-ID" \notin DOMAIN wasps[d].wasp_json}
       IN  IF failing # {}
           THEN \E d \in failing :
                  /\ wasps[d].wasp_json # <<>> => CanResolve(wasps[d].wasp_json)
                  /\ wasps' = IF wasps[d].wasp_json = <<>> THEN wasps
                              ELSE WaspMalware(wasps, wasps[d].wasp_json).wasps
                  /\ ui' = [ui EXCEPT !.running = FALSE]
                  /\ last' = [n |-> 1 - last.n, call |-> "select",
                              from |-> to_select, wasp_id |-> to_select,
                              raised |-> TRUE]
           ELSE /\ UNCHANGED wasps
                /\ ui' = IF to_select \in listed
                         THEN [ui EXCEPT !.selected_wasp = to_select]
                         ELSE ui
                /\ last' = [n |-> 1 - last.n, call |-> "select",
                            from |-> to_select, wasp_id |-> to_select,
                            raised |-> to_select \notin listed]
    /\ UNCHANGED beside_wasps

WaspsNext ==
    \/ \E headers \in Surveys : Resolve(headers)
    \/ \E to_select \in {"abc123", "nope"} : SelectWasp(to_select)
    \/ \E dir \in {"abc123"} \cup UuidNames :
          Load(dir) \/ QueueTask(dir) \/ AnswerTask(dir)

WaspsSpec == WaspsInit /\ [][WaspsNext]_vars

\* ---------------------------------------------------------------- claims
\* The fields of the entries in the pending queue.
Pending == {tasking[p].headers : p \in DOMAIN tasking}

\* The fields of the tasks sent on this connection.
Sent == {SentTasks[i].task : i \in DOMAIN SentTasks}

\* The handler has left handle(): normally, or by an exception.
Ended == pc \in {"DRAINED", "ABORTED"}

\* No submission has replaced the entry of an earlier one.
KeysDistinct ==
    \A i, j \in DOMAIN submitted : i # j => submitted[i].path # submitted[j].path

\* C1: within one connection, under every interleaving of submit_task calls
\* and agent replies (zero-length replies included), no pending task is sent
\* to the agent more than once.
C1_NoTaskSentTwice ==
    \A i, j \in DOMAIN SentTasks :
        i # j => SentTasks[i].task # SentTasks[j].task

\* C2: mark_complete (remove_task) called for a command c removes exactly the
\* pending entry that was persisted for c and leaves every other entry in
\* place (stated for the queues in which every submission has its own entry).
C2_MarkCompleteRemovesItsEntry ==
    [][(KeysDistinct /\ Len(marked') = Len(marked) + 1) =>
        LET c == marked'[Len(marked')]
        IN  /\ DOMAIN tasking' = {p \in DOMAIN tasking : tasking[p].headers # c}
            /\ \A p \in DOMAIN tasking' : tasking'[p] = tasking[p]]_vars

\* C3: a pending task is removed from the queue only after a non-empty
\* response to that same task was received, recorded and handled; a task that
\* was sent and whose response was not handled (the session aborted, the reply
\* was a zero-length frame, its handler failed) is still pending when the
\* session ends (stated for the queues in which every submission has its own
\* entry).
C3_RemovedOnlyWhenAnswered ==
    [][KeysDistinct' =>
        /\ \A p \in DOMAIN tasking :
               p \notin DOMAIN tasking' => tasking[p].headers \in Range(marked')
        /\ Ended' => \A t \in Sent' : t \in Range(marked') \/ t \in Pending']_vars

\* The command instances created so far: those the operator tools created,
\* and those the handler holds.
Instances == [i \in DOMAIN submitted |-> submitted[i].command] \o commands

\* C4: any two distinct command instances created in one process have
\* distinct identifiers.
C4_CommandIdsDistinct ==
    \A i, j \in DOMAIN Instances :
        (i # j /\ Instances[i].proc = Instances[j].proc)
            => command_id(Instances[i]) # command_id(Instances[j])

\* C5: every call of submit_task adds exactly one new entry to the pending
\* queue and overwrites no existing entry, also within one second; the
\* storage key of a later submission is greater than the key of every
\* earlier submission.
C5_SubmitAddsOneEntry ==
    [][Len(submitted') = Len(submitted) + 1 =>
        /\ Cardinality(DOMAIN tasking') = Cardinality(DOMAIN tasking) + 1
        /\ \A p \in DOMAIN tasking : tasking'[p] = tasking[p]
        /\ \A i \in DOMAIN submitted :
              PathLess(submitted[i].path, submitted'[Len(submitted')].path)]_vars

\* C6: every call of get_tasks during a drain returns the pending tasks in
\* their submission order (the n-th submitted command carries the fields n).
C6_TasksInSubmissionOrder ==
    pc \in DrainPcs =>
        LET tasks == get_tasks(tasking, ServerProc)
        IN  \A i, j \in DOMAIN tasks : i < j => tasks[i].task < tasks[j].task

\* C7: a task whose submission completed while the session was draining,
\* before the handler's last emptiness check, has been sent to the agent in
\* that session when the session ends normally.
C7_SubmittedDuringDrainIsSent ==
    pc = "DRAINED" =>
        \A i \in DOMAIN submitted :
            submitted[i].drain => submitted[i].command.task \in Sent

DrainFrames == SubSeq(wire, 5, Len(wire))

\* C10: after the session is READY, sends of task commands and receipts of
\* primary frames strictly alternate, starting with a send: the handler
\* never sends a second task before it received a frame for the previous one.
C10_SendsAndReceiptsAlternate ==
    pc \in DrainPcs \cup {"DRAINED", "ABORTED"} =>
        \A i \in DOMAIN DrainFrames :
            /\ DrainFrames[i].dir = (IF i % 2 = 1 THEN "send" ELSE "recv")
            /\ DrainFrames[i].dir = "send" => DrainFrames[i].kind = "task"

\* Two tasks were sent and each was answered by a frame.
C10_Witness ==
    /\ Len(SentTasks) >= 2
    /\ Len(DrainFrames) >= 4

\* The frames of the given direction and kind, as positions of the wire
\* history.
FramesAt(dir, kinds) ==
    {i \in DOMAIN wire : wire[i].dir = dir /\ wire[i].kind \in kinds}

\* The survey envelope: what handshake() reads with receive_result before
\* the handshake-acknowledgement command is sent.
SurveyAt ==
    {i \in FramesAt("recv", Replies) :
        \A a \in FramesAt("send", {"ack"}) : i < a}

\* C11, as stated: when the controller reads the agent's survey envelope,
\* both phases of the negotiation are over: the agent's handshake has been
\* read and the controller's magic, reserved byte and method byte have been
\* sent.
C11_NegotiationBeforeSurvey ==
    \A i \in SurveyAt :
        /\ \E j \in FramesAt("recv", {"handshake"}) : j < i
        /\ \E k \in FramesAt("send", {"handshake"}) : k < i

\* C11, amended: the agent's handshake is read before the survey envelope;
\* the controller's magic, reserved byte and method byte are sent only
\* after a survey with content has been read, and before the
\* handshake-acknowledgement command.
C11_SurveyBetweenThePhases ==
    /\ \A i \in SurveyAt :
          /\ \E j \in FramesAt("recv", {"handshake"}) : j < i
          /\ \A k \in FramesAt("send", {"handshake"}) : i < k
    /\ \A k \in FramesAt("send", {"handshake"}) :
          \E i \in SurveyAt : i < k /\ wire[i].kind = "content"
    /\ \A a \in FramesAt("send", {"ack"}) :
          \E k \in FramesAt("send", {"handshake"}) : k < a

\* The controller's handshake has been sent, after the survey was read.
C11_Witness ==
    /\ pc = "ack"
    /\ SurveyAt # {}
    /\ FramesAt("send", {"handshake"}) # {}

C13_AbortedForGood ==
    [][pc = "ABORTED" =>
          /\ pc' = "ABORTED"
          /\ wire' = wire
          /\ response' = response
          /\ marked' = marked
          /\ DOMAIN tasking \subseteq DOMAIN tasking'
          /\ tasking' # tasking => Len(submitted') = Len(submitted) + 1
      ]_vars

\* The session was ABORTED in the middle of a drain: a task has been sent
\* and an entry that no class can unpack is pending.
C13_Witness ==
    /\ pc = "ABORTED"
    /\ SentTasks # <<>>
    /\ get_tasks_raises(tasking)

C15_OneDrainPerAgent ==
    \A c, d \in Conns :
        (c # d /\ conn[c].pc \in DrainPcs /\ conn[d].pc \in DrainPcs)
        => conn[c].wasp # conn[d].wasp

\* The peer's first five bytes are the magic and the reserved sentinel.
GoodOpening ==
    /\ Len(peer) >= 5
    /\ SubSeq(peer, 1, 4) = magic_bytes
    /\ peer[5] = 0

\* C16: handshake_from_wasp goes on to the method byte (and further) only
\* when the first four bytes of the stream are the magic and the fifth is
\* the reserved sentinel 0; for every other stream, whatever follows these
\* bytes, the handshake fails at the latest when the fifth byte is read,
\* nothing after the fifth byte is read, and self.cipher_from_wasp is never
\* assigned.
C16_MagicAndReservedGuard ==
    /\ hs_pc \notin {"magic", "reserved", "HANDSHAKE_FAILED"} => GoodOpening
    /\ ~GoodOpening =>
          /\ hs_pc \in {"magic", "reserved", "HANDSHAKE_FAILED"}
          /\ pos <= 5
          /\ cipher_from_wasp = WaspCipher
          /\ ~ENABLED RecvMethod /\ ~ENABLED RecvOffset
          /\ \A k \in 0..4 : ~ENABLED ReceiveLength(k)

\* The magic was right, the reserved byte was not, and a well-formed method
\* and offset followed: the handshake has failed.
C16_Witness ==
    /\ hs_pc = "HANDSHAKE_FAILED"
    /\ Len(peer) >= 7
    /\ SubSeq(peer, 1, 4) = magic_bytes
    /\ peer[5] = 1
    /\ peer[6] = SIMPLE_CIPHER
    /\ pos = 5

\* C17: when handshake_from_wasp has returned (the handler is about to read
\* the first envelope), the method byte was 0 or 1; with 0 six bytes were
\* read in all and the inbound cipher is the no-op cipher; with 1 seven
\* bytes were read and the inbound cipher is the XOR-stream cipher seeded
\* with the seventh.  With any other method byte the handshake fails when
\* that byte is read: no further byte is read and no envelope is read.
C17_MethodSelectsCipher ==
    /\ hs_pc = "length" =>
          /\ GoodOpening
          /\ Len(peer) >= 6
          /\ peer[6] \in {EMPTY_CIPHER, SIMPLE_CIPHER}
          /\ peer[6] = EMPTY_CIPHER =>
                pos = 6 /\ cipher_from_wasp = WaspCipher
          /\ peer[6] = SIMPLE_CIPHER =>
                /\ pos = 7
                /\ cipher_from_wasp = WaspSimpleCipher(peer[7])
    /\ (Len(peer) >= 6 /\ peer[6] \notin {EMPTY_CIPHER, SIMPLE_CIPHER}) =>
          /\ hs_pc \in HandshakePcs \cup {"HANDSHAKE_FAILED"}
          /\ pos <= 6
          /\ cipher_from_wasp = WaspCipher
          /\ pos = 6 => hs_pc = "HANDSHAKE_FAILED"

\* Method byte 1 and an offset byte have been read, and the survey's
\* length field is next.
C17_Witness ==
    /\ hs_pc = "length"
    /\ peer[6] = SIMPLE_CIPHER
    /\ pos = 7
    /\ cipher_from_wasp = WaspSimpleCipher(peer[7])
    /\ Len(peer) > 7

\* C18: whatever offset byte the agent sent, the rolling offset of an
\* XOR-stream inbound cipher is in 0..254 and is an index of the keystream
\* table (cipher_bytes[offset] exists).
C18_OffsetIndexesTheTable ==
    cipher_from_wasp.method = SIMPLE_CIPHER =>
        /\ cipher_from_wasp.offset \in 0..254
        /\ cipher_from_wasp.offset + 1 \in DOMAIN cipher_bytes

\* C19: for every byte string and every seed in 0..254, cipher by an object
\* seeded with it, then cipher of the result by a second object seeded with
\* it, gives the byte string back.
C19_CipherTwiceIsIdentity ==
    cipher_pc = "done" => twice = data

\* Both calls were made on a string that crosses the end of the table, and
\* the enciphered string differs from the plain one in every byte.
C19_Witness ==
    /\ cipher_pc = "done"
    /\ seed = 254
    /\ Len(data) = MaxLen
    /\ \A i \in DOMAIN data : once[i] # data[i]
    /\ twice = data

\* The two cipher objects of a handler.
Ciphers(h) == <<h.cipher_from_wasp, h.cipher_to_wasp>>

\* C20: a step in which connection c reads and deciphers an envelope (the
\* survey, or the answer to a task) leaves the outbound cipher of c and both
\* ciphers of every other connection as they are; and no step at all
\* changes ciphers of two connections.
C20_CiphersOwnedByTheirHandler ==
    [][/\ \A c \in Conns :
             (conn[c].pc \in {"survey", "recv"} /\ conn'[c] # conn[c])
             => /\ conn'[c].cipher_to_wasp = conn[c].cipher_to_wasp
                /\ \A d \in Conns \ {c} : Ciphers(conn'[d]) = Ciphers(conn[d])
       /\ \A c, d \in Conns :
             (c # d /\ Ciphers(conn'[c]) # Ciphers(conn[c]))
             => Ciphers(conn'[d]) = Ciphers(conn[d])
      ]_vars

\* Connection 1 has deciphered its survey with an XOR-stream cipher seeded
\* with 0, while connection 2, seeded with 254, has not read anything yet.
C20_Witness ==
    /\ conn[1].pc = "handshake_to_wasp"
    /\ conn[1].cipher_from_wasp = WaspSimpleCipher(6)
    /\ conn[2].pc = "survey"
    /\ conn[2].cipher_from_wasp = WaspSimpleCipher(254)

\* C21: a frame whose deciphered length prefix is zero makes receive_result
\* return None with no byte of a body read and nothing parsed, and the
\* bytes after the prefix are read as the length prefix of the next frame.
C21_ZeroLengthIsNoContent ==
    \A i \in DOMAIN frames :
        frames[i].kind = "result" /\ frames[i].length = 0 =>
            /\ frames[i].outcome = "none"
            /\ frames[i].body = <<>>
            /\ IF i < Len(frames)
               THEN /\ frames[i + 1].kind = "result"
                    /\ frames[i + 1].at = frames[i].at + 4
               ELSE hs_pc = "result_length" => pos = frames[i].at + 4

\* An enciphered zero prefix was read and the envelope after it was parsed.
C21_Witness ==
    /\ cipher_from_wasp.method = SIMPLE_CIPHER
    /\ \E i \in DOMAIN frames :
          /\ frames[i].kind = "result" /\ frames[i].length = 0
          /\ i < Len(frames)
          /\ frames[i + 1].outcome = "envelope"

\* C22: however the stream is split across socket reads, an envelope that
\* receive_result returns was parsed from exactly the declared number of
\* body bytes, a chunk receive_chunks appends has its declared length, and
\* the next length prefix is read right after the declared body.
C22_BodiesReadWhole ==
    \A i \in DOMAIN frames :
        frames[i].outcome \in {"envelope", "chunked", "chunk"} =>
            /\ Len(frames[i].body) = frames[i].length
            /\ i < Len(frames) =>
                  frames[i + 1].at = frames[i].at + frames[i].length
                                     + (IF frames[i].kind = "result"
                                        THEN 4 ELSE 2)

\* C23: with ciphers of the same method and offset on both sides,
\* receive_chunks returns the byte string that was given to send_chunks; for
\* the empty string exactly one terminator record is sent.
C23_ChunksRoundTrip ==
    cipher_pc = "receive_chunks" /\ hs_pc \notin {"chunk_length", "chunk"} =>
        /\ hs_pc = "result_length"
        /\ received_bytes(frames) = data
        /\ data = <<>> => Len(once) = 2 /\ Len(frames) = 1

\* C24: a command of every class is the same command after get_dict and
\* from_dict: the command decoded from its envelope has the attributes of
\* the command encoded and encodes to the same envelope.
C24_CommandRoundTrip ==
    cipher_pc = "decoded" => twice = data /\ get_dict(twice) = once

\* C25: an entry of the queue whose verb names no registered class cannot be
\* decoded: when the drain reads the queue, or unpacks the entry on its way
\* to the task it removes, the session is aborted with the entry still in
\* the queue, and an aborted handler sends nothing more.
C25_UnknownVerbAbortsTheDrain ==
    [][/\ (/\ \E p \in DOMAIN tasking : tasking[p].uri \notin WASP_COMMAND_MAP
           /\ pc \in {"has_tasks", "get_tasks"}
           /\ pc' # pc)
             => (pc' = "ABORTED" /\ wire' = wire /\ tasking' = tasking)
       /\ (/\ pc = "recv"
           /\ Len(wire') > Len(wire)
           /\ wire'[Len(wire')].kind = "content"
           /\ remove_task_raises(tasking, ServerProc, commands[idx]))
             => (pc' = "ABORTED" /\ tasking' = tasking)
       /\ (pc = "ABORTED") => (pc' = "ABORTED" /\ wire' = wire)
      ]_vars

\* A drain that had sent a task was aborted with the entry in the queue.
C25_Witness ==
    /\ pc = "ABORTED"
    /\ get_tasks_raises(tasking)
    /\ Len(SentTasks) = 1
    /\ wire[Len(wire)].kind = "nocontent"

\* C26: for every non-empty response the record is written to the response
\* log before the command handles the response: the step that receives the
\* response leaves the record in the log, also when the handler fails.
C26_RecordedBeforeHandled ==
    [][(/\ pc = "recv"
        /\ Len(wire') > Len(wire)
        /\ wire'[Len(wire')].kind = "content")
          => /\ ResponsePath(now, commands[idx]) \in DOMAIN response'
             /\ response'[ResponsePath(now, commands[idx])] = commands[idx].task
      ]_vars

\* A response was recorded and its handler failed: the session is aborted,
\* nothing was marked complete and no entry of the queue is undecodable.
C26_Witness ==
    /\ pc = "ABORTED"
    /\ wire # <<>> /\ wire[Len(wire)].kind = "content"
    /\ DrainFrames # <<>>
    /\ marked = <<>>
    /\ ~get_tasks_raises(tasking)
    /\ response # <<>>

\* C27: the response log is append-only: every response recorded adds one
\* new record and changes or replaces none of the records already there,
\* also when two responses are recorded within the same second.
C27_ResponseLogAppendOnly ==
    [][(/\ pc = "recv"
        /\ Len(wire') > Len(wire)
        /\ wire'[Len(wire')].kind = "content")
          => /\ Cardinality(DOMAIN response') = Cardinality(DOMAIN response) + 1
             /\ \A p \in DOMAIN response :
                   p \in DOMAIN response' /\ response'[p] = response[p]
      ]_vars

\* C28: resolving an agent from a survey whose declared identifier is that
\* of an agent already in the store reuses the agent: the object has that
\* identifier, no directory is added, and the agent's pending queue, its
\* response log and its collected artifacts are what they were, as are the
\* other agents; this holds at every reconnect.
C28_ReconnectReusesTheAgent ==
    [][(/\ last'.n # last.n
        /\ last'.call = "survey"
        /\ "Trojan-ID" \in DOMAIN last'.from
        /\ last'.from["Trojan-ID"] \in DOMAIN wasps)
          => LET id == last'.from["Trojan-ID"]
             IN  /\ last'.wasp_id = id
                 /\ DOMAIN wasps' = DOMAIN wasps
                 /\ wasps'[id].tasking = wasps[id].tasking
                 /\ wasps'[id].response = wasps[id].response
                 /\ wasps'[id].collection = wasps[id].collection
                 /\ \A d \in DOMAIN wasps \ {id} : wasps'[d] = wasps[d]
      ]_vars

\* The agent abc123 reconnected with a task pending, a response logged and
\* an artifact collected.
C28_Witness ==
    /\ last.n = 1 /\ last.call = "survey" /\ ~last.raised
    /\ last.wasp_id = "abc123"
    /\ wasps["abc123"].tasking # <<>>
    /\ wasps["abc123"].response # <<>>
    /\ wasps["abc123"].collection # {}

\* C29: an agent that declares no identifier gets a generated one once:
\* every later load of the agent from its identity record yields the
\* identifier of the directory the record is in and adds no agent.
C29_GeneratedIdIsKept ==
    [][(/\ last'.n # last.n
        /\ last'.call = "load"
        /\ wasps[last'.from].wasp_json # <<>>)
          => /\ last'.wasp_id = last'.from
             /\ ~last'.raised
             /\ DOMAIN wasps' = DOMAIN wasps
      ]_vars

\* C30: a session opened with method 0 whose survey has only the headers
\* Trojan-ID abc123 and Trojan-Hostname h1 resolves or creates the agent
\* abc123 and goes on to the acknowledgement and the drain, where the
\* operator's task is sent, answered, recorded and removed.
C30_BareSurveyOpensTheSession ==
    \A i \in DOMAIN wire :
        wire[i] = Frame("recv", "bare", 0) =>
            /\ known
            /\ pc = "ABORTED" => Len(wire) > i

\* ---------------------------------------------------------------------
\* C36: the controller sends nothing to a peer whose handshake fails
\* validation.  A connection whose magic, reserved byte or method byte was
\* rejected has no accepted handshake on its wire; on such a connection the
\* wire holds no frame at all, and every frame the controller sent on any
\* connection comes after the accepted handshake of that connection.
C36_NothingSentToARejectedPeer ==
    /\ (\A i \in DOMAIN wire : wire[i] # Frame("recv", "handshake", 0))
          => (\A i \in DOMAIN wire : wire[i].dir # "send")
    /\ \A i \in DOMAIN wire :
          (wire[i].dir = "send") => (i > 1 /\ wire[1] = Frame("recv", "handshake", 0))
    /\ (pc = "ABORTED" /\ (wire = <<>> \/ wire[1].kind # "handshake"))
          => (wire = <<>>)

\* A connection that was rejected at the handshake: the handler has ended
\* and no agent was created.
C36_Witness ==
    /\ pc = "ABORTED"
    /\ wire = <<>>
    /\ ~known

\* ---------------------------------------------------------------------
\* C37: a command read back by get_tasks carries the identifier of the
\* command that was passed to submit_task, which is also the identifier in
\* the name its entry is stored under.  (Violated: command_id is not
\* packed, and unpack builds an instance that carries the class attribute
\* of the process that reads: the server's drain reads back the server's
\* identifier, not the operator's, which the storage name keeps.)
C37_ReadBackWithTheSameIdentifier ==
    \A k \in DOMAIN commands : \A i \in DOMAIN submitted :
        (submitted[i].command.task = commands[k].task)
            => /\ command_id(commands[k]) = command_id(submitted[i].command)
               /\ command_id(commands[k]) = submitted[i].path[2]

\* ---------------------------------------------------------------------
\* C39: agent creation is all-or-nothing.  Every agent directory in the
\* store has its identity record (wasp.json), and the operator tool's
\* listing never meets a directory without one.  (Violated: __init__ makes
\* the four directories before it validates Trojan-Machine and
\* Trojan-Platform, and writes wasp.json after: a survey it rejects with
\* ValueError leaves the directories without a record, and WaspUI.wasps
\* then raises on them.)
C39_EveryAgentHasItsRecord ==
    /\ \A d \in DOMAIN wasps : wasps[d].wasp_json # <<>>
    /\ (last.n \in {0, 1} /\ "call" \in DOMAIN last /\ last.call = "load")
          => (wasps[last.from].wasp_json # <<>>)

\* ---------------------------------------------------------------------
\* C38: the directories of two agents with distinct identifiers are
\* disjoint.  A call that creates or resolves one agent, queues a task for
\* it or records its responses leaves the pending queue of every other
\* agent as it was.  (Violated: the identifier is joined to WASPS_PATH
\* unchecked, so the agent "abc123/tasking" lives inside the pending queue
\* of the agent "abc123", and creating it adds five entries there.)
C38_OtherQueuesUntouched ==
    [][\A d \in DOMAIN wasps :
          (last'.wasp_id # d)
             => (d \in DOMAIN wasps' /\ wasps'[d].tasking = wasps[d].tasking)]_vars

\* ---------------------------------------------------------------------
\* C31: select_wasp with an identifier that matches no known agent reports
\* an error and changes nothing: the agent selected before stays selected,
\* every agent's pending queue is as it was, and the operator tool goes on
\* accepting commands.  (Violated: select_wasp walks self.wasps, which
\* reloads every agent directory; a directory without wasp.json (C39) or
\* with a generated identifier (C29) makes the load raise an exception the
\* prompt loop does not catch, and the tool ends.)
C31_UnknownSelectionChangesNothing ==
    [][(last' # last /\ last'.call = "select" /\ last'.from = "nope")
          => /\ ui'.running
             /\ ui'.selected_wasp = ui.selected_wasp
             /\ \A d \in DOMAIN wasps :
                   d \in DOMAIN wasps' /\ wasps'[d].tasking = wasps[d].tasking]_vars

\* ---------------------------------------------------------------------
\* C33: WaspSimpleCipher is a stream cipher across calls.  For every seed
\* offset and every way to cut the data into a and b, cipher(a) followed by
\* cipher(b) on the same object returns together what one cipher(a + b)
\* returns; output byte i is input byte i XOR keystream[(seed + i) mod 255]
\* (i from 0); and the object's offset afterwards is
\* (seed + len(a) + len(b)) mod 255.
C33_StreamCipherAcrossCalls ==
    (cipher_pc = "second") =>
        \A k \in 0..Len(data) :
            LET a == SubSeq(data, 1, k)
                b == SubSeq(data, k + 1, Len(data))
                first == cipher(WaspSimpleCipher(seed), a)
                second == cipher(first.cipher, b)
            IN  /\ ~first.raised /\ ~second.raised
                /\ first.bytes \o second.bytes = once
                /\ \A i \in DOMAIN data :
                      once[i] = Xor(data[i],
                                    cipher_bytes[((seed + i - 1) % 255) + 1])
                /\ first.cipher.offset = (seed + Len(a)) % 255
                /\ second.cipher.offset = (seed + Len(a) + Len(b)) % 255

\* Three bytes enciphered from the last offset of the table: the keystream
\* wraps inside the data, whichever way the data is cut.
C33_Witness ==
    /\ cipher_pc = "second"
    /\ seed = 254
    /\ Len(data) = 3
    /\ \A i \in DOMAIN data : data[i] # 0 /\ once[i] # data[i]

\* ---------------------------------------------------------------------
\* C34: what send_chunks(data) emits.  The records are cut from the data in
\* order, each with a length field between 1 and chunk_size (which fits the
\* two-byte field), their payloads make up the data, and after them comes
\* exactly one zero-length terminator, which ends the stream; empty data
\* gives the terminator alone.  Lengths and positions are checked under
\* every cipher, the bytes of payloads and terminator under the cipher the
\* controller sends with (WaspCipher).
C34_RecordsThenOneTerminator ==
    (cipher_pc = "receive_chunks") =>
        LET n == Len(data)
            count == (n + chunk_size - 1) \div chunk_size
            from(j) == (j - 1) * chunk_size
            size(j) == IF n - from(j) < chunk_size
                       THEN n - from(j) ELSE chunk_size
            at(j) == (j - 1) * (chunk_size + 2)
        IN  /\ chunk_size \in 1..65535
            /\ Len(once) = n + 2 * count + 2
            /\ (n = 0) => (count = 0 /\ Len(once) = 2)
            /\ \A j \in 1..count :
                  /\ size(j) \in 1..chunk_size
                  /\ unpack_int(SubSeq(once, at(j) + 1, at(j) + 2)) = size(j)
                  /\ (cipher_from_wasp.method = EMPTY_CIPHER)
                        => SubSeq(once, at(j) + 3, at(j) + 2 + size(j))
                             = SubSeq(data, from(j) + 1, from(j) + size(j))
            /\ (cipher_from_wasp.method = EMPTY_CIPHER)
                  => SubSeq(once, Len(once) - 1, Len(once)) = <<0, 0>>

\* A payload one byte longer than a chunk, sent as two records and the
\* terminator, all three read back by the receiver.
C34_Witness ==
    /\ cipher_pc = "receive_chunks"
    /\ Len(data) = chunk_size + 1
    /\ hs_pc = "result_length"
    /\ Len(frames) = 3
    /\ frames[1].length = chunk_size /\ frames[2].length = 1
    /\ frames[3].outcome = "end"

C35_ChunksOnlyAfterAChunkedEnvelope ==
    /\ \A i \in DOMAIN frames :
          /\ (frames[i].kind = "chunk")
                => /\ i > 1
                   /\ \/ frames[i - 1].outcome = "chunked"
                      \/ (frames[i - 1].kind = "chunk"
                            /\ frames[i - 1].outcome = "chunk")
          /\ (i < Len(frames) /\ frames[i].outcome = "chunked")
                => (frames[i + 1].kind = "chunk")
          /\ (i < Len(frames) /\ frames[i].outcome \in {"envelope", "none", "end"})
                => (frames[i + 1].kind = "result")
    /\ (hs_pc \in {"chunk_length", "chunk"})
          => /\ frames # <<>>
             /\ \/ frames[Len(frames)].outcome = "chunked"
                \/ frames[Len(frames)].kind = "chunk"
    /\ (frames # <<>> /\ frames[Len(frames)].outcome = "chunked")
          => (hs_pc \in {"chunk_length", "RECEIVE_FAILED"})
    /\ (frames # <<>> /\ frames[Len(frames)].outcome \in {"envelope", "none", "end"})
          => (hs_pc \in {"result_length", "RECEIVE_FAILED"})

\* A chunked envelope whose chunk and terminator were read, and a plain
\* envelope after which the next primary frame was read.
C35_Witness ==
    /\ \E i \in DOMAIN frames :
          /\ i + 2 \in DOMAIN frames
          /\ frames[i].outcome = "chunked"
          /\ frames[i + 1].outcome = "chunk"
          /\ frames[i + 2].outcome = "end"
    /\ \E j \in DOMAIN frames :
          /\ j + 1 \in DOMAIN frames
          /\ frames[j].outcome = "envelope"
          /\ frames[j + 1].kind = "result"

\* ---------------------------------------------------------------------
\* C40: a submit_task that is writing while the handler drains does not
\* disturb the drain.  get_tasks and has_tasks, run while an entry is
\* between its open and its write, do not end the session, and the commands
\* the drain gets are those of entries that were written whole.  (Violated:
\* the entry is visible from the open on; get_tasks reads the empty file,
\* json.loads raises, and nothing in handle() catches it.)
C40_WriterDoesNotDisturbTheDrain ==
    [][(pc \in {"has_tasks", "get_tasks"} /\ Truncated \in Range(tasking))
          => /\ pc' # "ABORTED"
             /\ \A k \in DOMAIN commands' : commands'[k].uri \in Verbs]_vars

====
